---------------------------- MODULE Spec2Model ----------------------------
(***************************************************************************)
(* Model of the McIntosh asynchronous protocol engine                      *)
(* (custom_components/mcintosh/pymcintosh/protocol.py): the asyncio        *)
(* protocol callbacks, the lock / connection / throttle wrappers of send   *)
(* and the framing of the response.                                        *)
(*                                                                         *)
(* One action is one handle of the asyncio event loop: a callback of the   *)
(* protocol or the run of a task between two suspension points.  `ready`   *)
(* is the loop's FIFO of scheduled handles; a loop iteration (Select)      *)
(* appends the reader callback and the timers that are due, and then runs  *)
(* what the FIFO held at that moment.  Time is relative: `remaining` is    *)
(* what is left of the timer of the lock holder, `sinceLast` is            *)
(* time.time() - _last_send, saturated at MinTime.                         *)
(***************************************************************************)
EXTENDS Integers, Sequences, FiniteSets, TLC

\* ----- bounds -----------------------------------------------------------
NumTasks == 3          \* concurrent callers of send, one call each
NumFrameCalls == 2     \* callers of the framing specification
NumLiveCalls == 2      \* callers of the liveness specification
Timeout  == 2          \* self._timeout, in ticks
MinTime  == 2          \* self._min_time_between_commands, in ticks
NumEntries == 2        \* config entries of the integration
MaxLevel == 102        \* largest level handed to Volume.set
MaxText  == 4          \* symbols of a reply handed to a getter
MaxData  == 5          \* bytes of `data` that are tracked byte by byte
MaxForms == 3          \* times the connection form of the config flow is shown
MaxClients == 3        \* clients opened for one config entry
MaxStream == 4         \* bytes of the stream handed to both clients
NumSyncCalls == 3      \* commands sent through the synchronous client

Max3(a, b, c) ==
  IF a >= b /\ a >= c THEN a ELSE IF b >= c THEN b ELSE c

Tasks == 1 .. Max3(NumTasks, NumFrameCalls, NumLiveCalls)
Callers == 1 .. NumTasks
FrameCallers == 1 .. NumFrameCalls
LiveCallers == 1 .. NumLiveCalls
Entries == 1 .. NumEntries

\* ----- bytes ------------------------------------------------------------
EOL      == 13         \* response_eol, '\r'
NonAscii == 200        \* a byte >= 0x80 (line noise)
Chatter  == 63         \* '?', an unsolicited byte that is not the terminator

Tag(c)  == 64 + c      \* first line of the device's reply to the request of c
Tag2(c) == 96 + c      \* second line of that reply
OwnBytes(c) == {Tag(c), Tag2(c)}

\* a device that answers the request of task c with one line or not at all
Terse(c) == { << >>, <<Tag(c), EOL>> }

\* a device that also sends a second line and line noise
Replies(c) ==
  Terse(c) \cup { <<Tag(c), EOL, Tag2(c)>>, <<NonAscii, Tag(c), EOL>> }

VARIABLES
  pc,          \* position of every caller inside send
  wait,        \* wait_for_reply argument of every call
  lock,        \* self._lock: locked flag and FIFO of waiters
  connected,   \* self._connected (asyncio.Event)
  transport,   \* "none" before connection_made, then "open", then "closed"
  q,           \* self._q
  ready,       \* handles the event loop has scheduled, in order
  todo,        \* handles of `ready` that belong to the running iteration
  inbuf,       \* input buffer of the serial port
  line,        \* bytes the device has still to emit
  data,        \* local bytearray of the send that reads the response
  armed,       \* the lock holder has a timer (timeout or sleep) scheduled
  remaining,   \* time left of that timer
  sinceLast,   \* time.time() - self._last_send
  ret,         \* outcome delivered to every caller
  exit,        \* which way every call left send
  submitted,   \* callers in the order they entered send
  contended,   \* some call has queued for the lock behind another waiter
  wire,        \* writes on the transport: caller, gap to the previous write
  sinceWrite,  \* time since the last write on the transport
  dataStale,   \* data holds bytes handed over before the last buffer clear
  discarded,   \* bytes of the later segments that returning sends dropped
  ticked,      \* the clock has advanced since the loop last looked at it
  client       \* async_get_mcintosh: "none" without init command, else
               \* "pending", "returned" or "failed"

\* the integration and the client library above the protocol
VARIABLES
  hass_data,   \* hass.data[DOMAIN]: what every config entry has registered
  setup,       \* the latest connect_to_device: its inputs and how it ended
  cycle,       \* _async_update_data: "idle", "running", "returned" or
               \* "UpdateFailed"
  fetching,    \* index of the field the running poll cycle fetches next
  mcdata,      \* fields of McIntoshData the cycle has assigned
  range_fetched,  \* self._lipsync_range_fetched
  reply,       \* how the send of a getter ended
  got,         \* the getter that was called and what it gave
  sent,        \* the requests handed to protocol.send, in order
  arg,         \* the argument of the operation that was called
  player,      \* McIntoshMediaPlayer: its state, its source, whether
               \* async_update runs, and the source name last selected
  flow,        \* McIntoshConfigFlow: the step whose form is shown, the
               \* errors of that form, and what the user has entered
  sync,        \* McIntoshSync: the port, the send in progress, its writes
  pair,        \* one byte stream of the device, in chunks, and what each of
               \* the two clients makes of it
  home         \* every config entry: its data and options, the clients
               \* opened for it, and its entities

entryVars ==
  <<hass_data, setup, cycle, fetching, mcdata, range_fetched, reply, got,
    sent, arg, player>>

\* the config flow and the synchronous client stand beside the rest
frontVars == <<flow, sync, pair, home>>

clientVars == <<entryVars, frontVars>>

protocolVars ==
  <<pc, wait, lock, connected, transport, q, ready, todo, inbuf, line, data,
    armed, remaining, sinceLast, ret, exit, submitted, contended, wire,
    sinceWrite, dataStale, discarded, ticked, client>>

vars == <<protocolVars, clientVars>>

Pending == [kind |-> "pending", text |-> << >>]
RetNone == [kind |-> "None", text |-> << >>]
RetText(t) == [kind |-> "text", text |-> t]
RaiseTimeout == [kind |-> "TimeoutError", text |-> << >>]
RaiseError == [kind |-> "Error", text |-> << >>]

\* what a getter gives: a bool, an int, a dict of two ints, absent or an
\* exception
Got(kind, b, n, m, e) ==
  [kind |-> kind, b |-> b, n |-> n, m |-> m, e |-> e, name |-> << >>]
NotCalled == Got("pending", FALSE, 0, 0, "")
Absent == Got("absent", FALSE, 0, 0, "")
GotBool(b) == Got("bool", b, 0, 0, "")
GotInt(n) == Got("int", FALSE, n, 0, "")
GotDict(n, m) == Got("dict", FALSE, n, m, "")
GotRaise(e) == Got("raise", FALSE, 0, 0, e)
\* the dict of Source.get: the index and the symbols of the name
GotSource(n, nm) == [Got("dict", FALSE, n, 0, "") EXCEPT !.name = nm]

NoPlayer ==
  [state |-> "unknown", source |-> "None", updating |-> FALSE,
   selected |-> ""]

\* McIntoshConfigFlow.__init__: no step has run
NoFlow ==
  [step |-> "none", errors |-> "", model |-> "", groups |-> {},
   raised |-> "", ping |-> "", shown |-> 0, created |-> FALSE]

\* before McIntoshSync is constructed: nothing has been written
NoSync ==
  [phase |-> "idle", calls |-> 0, result |-> << >>, out |-> "",
   quiet |-> 0, sinceWrite |-> 0, wire |-> << >>]

\* no stream has been handed to the two clients
NoPair == [stream |-> << >>, cuts |-> {}, sync |-> "", async |-> "",
           syncText |-> << >>, asyncText |-> << >>]

\* a config entry that has not been created
NoEntry ==
  [state |-> "none", model |-> "", url |-> "", opt_url |-> "",
   opt_sources |-> {}, opened |-> 0, latest_url |-> "", held |-> 0,
   used |-> 0, player_sources |-> "none", uids |-> {}]

FrontIdle ==
  flow = NoFlow /\ sync = NoSync /\ home = [e \in Entries |-> NoEntry]

NoSetup == [entry |-> 0, model |-> "", opens |-> FALSE, init |-> "None",
            result |-> "none"]
NoGet == [getter |-> "", model |-> "", result |-> NotCalled]

Holding == {"connwait", "throttle", "reading"}
InSend  == Holding \cup {"lockwait"}

\* ----- handles of the event loop ----------------------------------------
Handle(k, c, b, f) == [k |-> k, c |-> c, bytes |-> b, flag |-> f]
CallH(c, w)   == Handle("call", c, << >>, w)      \* a caller's task calls send
StepH(c, x)   == Handle("step", c, << >>, x)      \* task wakes; x: cancelled
PutH(b, st)   == Handle("put", 0, b, st)          \* the task of self._q.put
ReaderH       == Handle("reader", 0, << >>, FALSE)
TimerH        == Handle("timer", 0, << >>, FALSE)
MadeH         == Handle("made", 0, << >>, FALSE)
LostH         == Handle("lost", 0, << >>, FALSE)
NopH          == Handle("nop", 0, << >>, FALSE)    \* a cancelled timer handle

HasKind(r, k) == \E i \in 1 .. Len(r) : r[i].k = k
HasStep(r, c) == \E i \in 1 .. Len(r) : r[i].k = "step" /\ r[i].c = c

\* TimerHandle.cancel(): the handle stays where it is and does nothing
CancelTimer(r) ==
  [i \in 1 .. Len(r) |-> IF r[i].k = "timer" THEN NopH ELSE r[i]]

\* Task.cancel() on a task whose wake-up is already scheduled
MarkCancelled(r, c) ==
  [i \in 1 .. Len(r) |->
     IF r[i].k = "step" /\ r[i].c = c THEN StepH(c, TRUE) ELSE r[i]]

\* chunks handed to data_received whose put has not run yet
MarkStale(r) ==
  [i \in 1 .. Len(r) |->
     IF r[i].k = "put" THEN PutH(r[i].bytes, TRUE) ELSE r[i]]

\* nothing has been set up, polled or asked above the protocol
ClientIdle ==
  /\ pair = NoPair
  /\ hass_data = [e \in Entries |-> "absent"]
  /\ setup = NoSetup
  /\ cycle = "idle"
  /\ fetching = 0
  /\ mcdata = {}
  /\ range_fetched = FALSE
  /\ reply = Pending
  /\ got = NoGet
  /\ sent = << >>
  /\ arg = 0
  /\ player = NoPlayer
  /\ FrontIdle

\* the protocol is constructed and connection_made is scheduled; the task
\* that created it either yields, or goes on to send the init command of the
\* model before the loop has run connection_made
Init ==
  /\ \/ /\ pc = [c \in Tasks |-> "idle"]
        /\ ready = <<MadeH>>
        /\ client = "none"
     \/ /\ pc = [c \in Tasks |-> IF c = 1 THEN "called" ELSE "idle"]
        /\ ready = <<CallH(1, TRUE), MadeH>>
        /\ client = "pending"
  /\ wait = [c \in Tasks |-> TRUE]
  /\ lock = [locked |-> FALSE, waiters |-> << >>]
  /\ connected = FALSE
  /\ transport = "none"
  /\ q = << >>
  /\ todo = 0
  /\ inbuf = << >>
  /\ line = << >>
  /\ data = << >>
  /\ armed = FALSE
  /\ remaining = 0
  /\ sinceLast = MinTime
  /\ ret = [c \in Tasks |-> Pending]
  /\ exit = [c \in Tasks |-> "none"]
  /\ submitted = << >>
  /\ contended = FALSE
  /\ wire = << >>
  /\ sinceWrite = MinTime
  /\ dataStale = FALSE
  /\ discarded = {}
  /\ ticked = FALSE
  /\ ClientIdle

\* ----- pure helpers -----------------------------------------------------
Min(a, b) == IF a < b THEN a ELSE b
Max(a, b) == IF a > b THEN a ELSE b

Contains(s, b) == \E i \in 1 .. Len(s) : s[i] = b

RECURSIVE Split(_, _)
\* bytes.split(sep) for a one byte separator: the segments between separators
Split(s, sep) ==
  IF ~Contains(s, sep) THEN <<s>>
  ELSE LET i == CHOOSE k \in 1 .. Len(s) :
                  s[k] = sep /\ \A j \in 1 .. k - 1 : s[j] # sep
       IN <<SubSeq(s, 1, i - 1)>> \o Split(SubSeq(s, i + 1, Len(s)), sep)

NonEmpty(seg) == seg # << >>
IsAscii(b) == b < 128

\* bytes.decode('ascii', errors='ignore')
Decode(s) == SelectSeq(s, IsAscii)

FirstLineLast(d) ==
  LET lines == SelectSeq(Split(d, EOL), NonEmpty)
  IN IF lines = << >> THEN << >> ELSE Decode(lines[Len(lines)])

\* the text send returns once `data` holds the terminator
FirstLine(d) ==
  LET lines == SelectSeq(Split(d, EOL), NonEmpty)
  IN IF lines = << >> THEN << >> ELSE Decode(lines[1])

\* the bytes of the segments after the first non-empty one (lines 132-134)
Later(d) ==
  LET lines == SelectSeq(Split(d, EOL), NonEmpty)
  IN UNION {{lines[i][j] : j \in 1 .. Len(lines[i])} : i \in 2 .. Len(lines)}

RECURSIVE Consume(_, _)
\* the read loop between two suspensions: it takes chunks while the queue
\* has some and `data` has no terminator
Consume(d, qq) ==
  IF Contains(d, EOL) \/ qq = << >>
  THEN [d |-> d, q |-> qq]
  ELSE Consume(d \o Head(qq).bytes, Tail(qq))

DelayNone(delta) == 0

\* the delay _throttle_requests sleeps
Delay(delta) == Max(0, MinTime - delta)

CanAcquireBarging(lk) == ~lk.locked

\* asyncio.Lock.acquire takes the lock at once only when it is free and
\* nobody waits for it
CanAcquire(lk) == ~lk.locked /\ lk.waiters = << >>

EnqueueFront(w, c) == <<c>> \o w

\* asyncio.Lock.acquire appends the caller's future to the waiters
Enqueue(w, c) == Append(w, c)

\* asyncio.Lock.release wakes the first waiter
WakeFirst(lk) ==
  IF lk.waiters = << >> THEN << >> ELSE <<StepH(Head(lk.waiters), FALSE)>>

ReleaseKeep(lk) == lk

\* asyncio.Lock.release frees the lock
Release(lk) == [lk EXCEPT !.locked = FALSE]

WrittenTwice(wr, c, gap) ==
  Append(Append(wr, [task |-> c, gap |-> gap]), [task |-> c, gap |-> 0])

\* self._transport.serial.write(request): one write on the transport
Written(wr, c, gap) == Append(wr, [task |-> c, gap |-> gap])

InitOutcomeIgnored(r) == "returned"

\* async_get_mcintosh awaits the send of the init command and returns the
\* client; an exception of the send leaves async_get_mcintosh instead
InitOutcome(r) ==
  IF r.kind \in {"TimeoutError", "Error"} THEN "failed" ELSE "returned"

\* ----- ways out of send -------------------------------------------------
\* leave send: `async with self._lock` releases the lock on return and raise
Finish(c, lk, how, r, rest) ==
  /\ pc' = [pc EXCEPT ![c] = "done"]
  /\ wait' = [wait EXCEPT ![c] = TRUE]
  /\ lock' = Release(lk)
  /\ ready' = rest \o WakeFirst(lk)
  /\ armed' = FALSE
  /\ remaining' = 0
  /\ exit' = [exit EXCEPT ![c] = how]
  /\ ret' = [ret EXCEPT ![c] = r]
  /\ client' = IF c = 1 /\ client = "pending" THEN InitOutcome(r) ELSE client

\* suspend at an await with a timer of t, keeping the lock
Suspend(c, w, lk, at, t, rest) ==
  /\ pc' = [pc EXCEPT ![c] = at]
  /\ wait' = [wait EXCEPT ![c] = w]
  /\ lock' = lk
  /\ ready' = rest
  /\ armed' = TRUE
  /\ remaining' = t
  /\ UNCHANGED <<exit, ret, client>>

AwaitsReplyAlways(w) == TRUE

\* lines 114-115: `if not wait_for_reply: return None`
AwaitsReply(w) == w

\* ----- send, from the buffer clear to the first read ---------------------
\* lines 103-123: clear the buffers, stamp, write, start reading;
\* r is what the device will answer to the request
ClearAndWrite(c, w, lk, r, rest) ==
  \/ \* the serial object of a closed transport refuses the call
     /\ transport = "closed"
     /\ Finish(c, lk, "error", RaiseError, rest)
     /\ UNCHANGED <<q, inbuf, line, data, sinceLast, wire, sinceWrite,
                    dataStale>>
  \/ /\ q' = << >>
     /\ inbuf' = << >>
     /\ sinceLast' = 0
     /\ wire' = Written(wire, c, IF wire = << >> THEN -1 ELSE sinceWrite)
     /\ sinceWrite' = 0
     /\ line' = IF transport = "open" THEN line \o r ELSE line
     /\ IF AwaitsReply(w)
        THEN /\ Suspend(c, w, lk, "reading", Timeout, MarkStale(rest))
             /\ data' = << >>
             /\ dataStale' = FALSE
        ELSE /\ Finish(c, lk, "no_reply", RetNone, MarkStale(rest))
             /\ UNCHANGED <<data, dataStale>>

\* lines 88-101: _throttle_requests, then the rest of send
Body(c, w, lk, r, rest) ==
  IF sinceLast < MinTime
  THEN /\ Suspend(c, w, lk, "throttle", Delay(sinceLast), rest)
       /\ UNCHANGED <<q, inbuf, line, data, sinceLast, wire, sinceWrite,
                      dataStale>>
  ELSE ClearAndWrite(c, w, lk, r, rest)

\* lines 32-43: ensure_connected
EnsureConnected(c, w, lk, r, rest) ==
  IF connected
  THEN Body(c, w, lk, r, rest)
  ELSE /\ Suspend(c, w, lk, "connwait", Timeout, rest)
       /\ UNCHANGED <<q, inbuf, line, data, sinceLast, wire, sinceWrite,
                      dataStale>>

\* the handle the loop runs now
Running(h) == todo > 0 /\ ready # << >> /\ Head(ready) = h

\* ----- actions of a caller ----------------------------------------------
\* the task of a caller becomes ready to call send(request, w); callers
\* are numbered in the order in which they come
Submit(c, w) ==
  /\ pc[c] = "idle"
  /\ \A d \in 1 .. c - 1 : pc[d] # "idle"
  /\ pc' = [pc EXCEPT ![c] = "called"]
  /\ ready' = Append(ready, CallH(c, w))
  /\ UNCHANGED <<wait, lock, connected, transport, q, todo, inbuf, line, data,
                 armed, remaining, sinceLast, ret, exit, submitted, contended,
                 wire, sinceWrite, dataStale, discarded, ticked, client>>
  /\ UNCHANGED clientVars

\* a caller calls send(request, wait_for_reply = w): `async with self._lock`
SendCall(c, w, r) ==
  /\ Running(CallH(c, w))
  /\ todo' = todo - 1
  /\ submitted' = Append(submitted, c)
  /\ contended' = (contended \/ (~CanAcquire(lock) /\ lock.waiters # << >>))
  /\ IF CanAcquire(lock)
     THEN EnsureConnected(c, w, [lock EXCEPT !.locked = TRUE], r, Tail(ready))
     ELSE /\ pc' = [pc EXCEPT ![c] = "lockwait"]
          /\ wait' = [wait EXCEPT ![c] = w]
          /\ lock' = [lock EXCEPT !.waiters = Enqueue(lock.waiters, c)]
          /\ ready' = Tail(ready)
          /\ UNCHANGED <<q, inbuf, line, data, armed, remaining, sinceLast,
                         ret, exit, wire, sinceWrite, dataStale, client>>
  /\ UNCHANGED <<connected, transport, discarded, ticked>>
  /\ UNCHANGED clientVars

\* the woken waiter takes the lock
LockResume(c, r) ==
  /\ Running(StepH(c, FALSE))
  /\ pc[c] = "lockwait"
  /\ todo' = todo - 1
  /\ EnsureConnected(c, wait[c],
        [locked |-> TRUE,
         waiters |-> SelectSeq(lock.waiters, LAMBDA x : x # c)],
        r, Tail(ready))
  /\ UNCHANGED <<connected, transport, submitted, contended, discarded,
                 ticked>>
  /\ UNCHANGED clientVars

\* self._connected.wait() returned
ConnectedWake(c, r) ==
  /\ Running(StepH(c, FALSE))
  /\ pc[c] = "connwait"
  /\ todo' = todo - 1
  /\ Body(c, wait[c], lock, r, CancelTimer(Tail(ready)))
  /\ UNCHANGED <<connected, transport, submitted, contended, discarded,
                 ticked>>
  /\ UNCHANGED clientVars

ConnTimeoutDrains(c) ==
  /\ Running(StepH(c, TRUE))
  /\ pc[c] = "connwait"
  /\ todo' = todo - 1
  /\ Finish(c, lock, "not_connected", RetNone, Tail(ready))
  /\ q' = << >>
  /\ UNCHANGED <<connected, transport, inbuf, line, data, sinceLast,
                 submitted, contended, wire, sinceWrite, dataStale, discarded,
                 ticked>>
  /\ UNCHANGED clientVars

\* wait_for(self._connected.wait(), self._timeout) timed out: bare return
ConnTimeout(c) ==
  /\ Running(StepH(c, TRUE))
  /\ pc[c] = "connwait"
  /\ todo' = todo - 1
  /\ Finish(c, lock, "not_connected", RetNone, Tail(ready))
  /\ UNCHANGED <<connected, transport, q, inbuf, line, data, sinceLast,
                 submitted, contended, wire, sinceWrite, dataStale, discarded,
                 ticked>>
  /\ UNCHANGED clientVars

\* asyncio.sleep(delay) of _throttle_requests is over
ThrottleWake(c, r) ==
  /\ Running(StepH(c, FALSE))
  /\ pc[c] = "throttle"
  /\ todo' = todo - 1
  /\ ClearAndWrite(c, wait[c], lock, r, Tail(ready))
  /\ UNCHANGED <<connected, transport, submitted, contended, discarded,
                 ticked>>
  /\ UNCHANGED clientVars

\* lines 122-140: the read loop runs on the chunks of the queue
ReadChunk(c) ==
  /\ Running(StepH(c, FALSE))
  /\ pc[c] = "reading"
  /\ todo' = todo - 1
  /\ LET res == Consume(data, q)
         taken == Len(q) - Len(res.q)
     IN /\ Contains(res.d, EOL) \/ Len(res.d) <= MaxData
        /\ q' = res.q
        /\ data' = res.d
        /\ dataStale' = (dataStale \/ \E i \in 1 .. taken : q[i].stale)
        /\ discarded' = IF Contains(res.d, EOL)
                        THEN discarded \cup Later(res.d)
                        ELSE discarded
        /\ IF Contains(res.d, EOL)
           THEN Finish(c, lock, "response", RetText(FirstLine(res.d)),
                       CancelTimer(Tail(ready)))
           ELSE Suspend(c, TRUE, lock, "reading", Timeout,
                        CancelTimer(Tail(ready)))
  /\ UNCHANGED <<connected, transport, inbuf, line, sinceLast, submitted,
                 contended, wire, sinceWrite, ticked>>
  /\ UNCHANGED clientVars

\* lines 142-146: wait_for(self._q.get(), self._timeout) timed out
ReadTimeout(c) ==
  /\ Running(StepH(c, TRUE))
  /\ pc[c] = "reading"
  /\ todo' = todo - 1
  /\ Finish(c, lock, "timeout", RaiseTimeout, Tail(ready))
  /\ UNCHANGED <<connected, transport, q, inbuf, line, data, sinceLast,
                 submitted, contended, wire, sinceWrite, dataStale, discarded,
                 ticked>>
  /\ UNCHANGED clientVars

\* ----- callbacks of the event loop --------------------------------------
connection_made ==
  /\ Running(MadeH)
  /\ todo' = todo - 1
  /\ transport' = "open"
  /\ connected' = TRUE
  /\ ready' = Tail(ready) \o
        (IF \E c \in Tasks : pc[c] = "connwait" /\ ~HasStep(ready, c)
         THEN <<StepH(CHOOSE c \in Tasks : pc[c] = "connwait", FALSE)>>
         ELSE << >>)
  /\ UNCHANGED <<pc, wait, lock, q, inbuf, line, data, armed, remaining,
                 sinceLast, ret, exit, submitted, contended, wire, sinceWrite,
                 dataStale, discarded, ticked, client>>
  /\ UNCHANGED clientVars

\* the transport is closed or fails: connection_lost is scheduled
Lose ==
  /\ transport = "open"
  /\ ~HasKind(ready, "lost")
  /\ ready' = Append(ready, LostH)
  /\ UNCHANGED <<pc, wait, lock, connected, transport, q, todo, inbuf, line,
                 data, armed, remaining, sinceLast, ret, exit, submitted,
                 contended, wire, sinceWrite, dataStale, discarded, ticked,
                 client>>
  /\ UNCHANGED clientVars

connection_lost_keeps_flag ==
  /\ Running(LostH)
  /\ todo' = todo - 1
  /\ ready' = Tail(ready)
  /\ transport' = "closed"
  /\ UNCHANGED <<pc, wait, lock, connected, q, inbuf, line, data, armed,
                 remaining, sinceLast, ret, exit, submitted, contended, wire,
                 sinceWrite, dataStale, discarded, ticked, client>>
  /\ UNCHANGED clientVars

connection_lost ==
  /\ Running(LostH)
  /\ todo' = todo - 1
  /\ ready' = Tail(ready)
  /\ transport' = "closed"
  /\ connected' = FALSE
  /\ UNCHANGED <<pc, wait, lock, q, inbuf, line, data, armed, remaining,
                 sinceLast, ret, exit, submitted, contended, wire, sinceWrite,
                 dataStale, discarded, ticked, client>>
  /\ UNCHANGED clientVars

\* the reader callback of the transport reads what the port holds and hands
\* it to data_received, which only schedules the put
data_received ==
  /\ Running(ReaderH)
  /\ todo' = todo - 1
  /\ IF transport = "open" /\ inbuf # << >>
     THEN /\ ready' = Append(Tail(ready), PutH(inbuf, FALSE))
          /\ inbuf' = << >>
     ELSE /\ ready' = Tail(ready)
          /\ UNCHANGED inbuf
  /\ UNCHANGED <<pc, wait, lock, connected, transport, q, line, data, armed,
                 remaining, sinceLast, ret, exit, submitted, contended, wire,
                 sinceWrite, dataStale, discarded, ticked, client>>
  /\ UNCHANGED clientVars

\* the scheduled self._q.put(data) runs and wakes the send that waits in
\* self._q.get()
QueuePut ==
  /\ todo > 0 /\ ready # << >> /\ Head(ready).k = "put"
  /\ todo' = todo - 1
  /\ q' = Append(q, [bytes |-> Head(ready).bytes, stale |-> Head(ready).flag])
  /\ ready' = Tail(ready) \o
        (IF \E c \in Tasks : pc[c] = "reading" /\ ~HasStep(ready, c)
         THEN <<StepH(CHOOSE c \in Tasks : pc[c] = "reading", FALSE)>>
         ELSE << >>)
  /\ UNCHANGED <<pc, wait, lock, connected, transport, inbuf, line, data,
                 armed, remaining, sinceLast, ret, exit, submitted, contended,
                 wire, sinceWrite, dataStale, discarded, ticked, client>>
  /\ UNCHANGED clientVars

\* the timer of the lock holder fires: the sleep is over, or the timeout
\* cancels the task
TimerFire ==
  /\ Running(TimerH)
  /\ todo' = todo - 1
  /\ LET c == CHOOSE x \in Tasks : pc[x] \in Holding
     IN ready' = IF HasStep(ready, c)
                 THEN MarkCancelled(Tail(ready), c)
                 ELSE Append(Tail(ready), StepH(c, pc[c] # "throttle"))
  /\ UNCHANGED <<pc, wait, lock, connected, transport, q, inbuf, line, data,
                 armed, remaining, sinceLast, ret, exit, submitted, contended,
                 wire, sinceWrite, dataStale, discarded, ticked, client>>
  /\ UNCHANGED clientVars

\* a cancelled timer handle
NopHandle ==
  /\ Running(NopH)
  /\ todo' = todo - 1
  /\ ready' = Tail(ready)
  /\ UNCHANGED <<pc, wait, lock, connected, transport, q, inbuf, line, data,
                 armed, remaining, sinceLast, ret, exit, submitted, contended,
                 wire, sinceWrite, dataStale, discarded, ticked, client>>
  /\ UNCHANGED clientVars

\* BaseEventLoop._run_once: after the handles of one iteration, the loop
\* appends the reader callback if the port has bytes, then the timer if it
\* is due, and runs what is scheduled
Select ==
  /\ todo = 0
  /\ LET io == IF transport = "open" /\ inbuf # << >> THEN <<ReaderH>>
               ELSE << >>
         tm == IF armed /\ remaining = 0 THEN <<TimerH>> ELSE << >>
     IN /\ ready \o io \o tm # << >>
        /\ ready' = ready \o io \o tm
        /\ todo' = Len(ready \o io \o tm)
        /\ armed' = (armed /\ remaining # 0)
        /\ ticked' = FALSE
  /\ UNCHANGED <<pc, wait, lock, connected, transport, q, inbuf, line, data,
                 remaining, sinceLast, ret, exit, submitted, contended, wire,
                 sinceWrite, dataStale, discarded, client>>
  /\ UNCHANGED clientVars

\* ----- environment ------------------------------------------------------
\* k bytes of the device's output reach the port
DeviceEmit(k) ==
  /\ transport = "open"
  /\ k \in 1 .. Len(line)
  /\ inbuf' = inbuf \o SubSeq(line, 1, k)
  /\ line' = SubSeq(line, k + 1, Len(line))
  /\ UNCHANGED <<pc, wait, lock, connected, transport, q, ready, todo, data,
                 armed, remaining, sinceLast, ret, exit, submitted, contended,
                 wire, sinceWrite, dataStale, discarded, ticked, client>>
  /\ UNCHANGED clientVars

\* the clock advances by one unit: while the loop waits in select with
\* nothing to run, or once between two iterations that have handles to run;
\* a timer that is due is collected by the next iteration first
Tick ==
  /\ todo = 0
  /\ ready = << >> \/ ~ticked
  /\ ~(armed /\ remaining = 0)
  /\ armed \/ sinceLast < MinTime
  /\ ticked' = (ready # << >>)
  /\ remaining' = Max(0, remaining - 1)
  /\ sinceLast' = Min(MinTime, sinceLast + 1)
  /\ sinceWrite' = Min(MinTime, sinceWrite + 1)
  /\ UNCHANGED <<pc, wait, lock, connected, transport, q, ready, todo, inbuf,
                 line, data, armed, ret, exit, submitted, contended, wire,
                 dataStale, discarded, client>>
  /\ UNCHANGED clientVars

\* what the event loop does, whoever the callers are
Loop ==
  \/ Select
  \/ connection_made
  \/ connection_lost
  \/ data_received
  \/ QueuePut
  \/ TimerFire
  \/ NopHandle

\* ----- the engine with concurrent callers and a terse device ------------
Next ==
  \/ \E c \in Callers : \E w \in BOOLEAN : Submit(c, w)
  \/ \E c \in Callers : \E w \in BOOLEAN, r \in Terse(c) : SendCall(c, w, r)
  \/ \E c \in Callers : \E r \in Terse(c) : LockResume(c, r)
  \/ \E c \in Callers : \E r \in Terse(c) : ConnectedWake(c, r)
  \/ \E c \in Callers : ConnTimeout(c)
  \/ \E c \in Callers : \E r \in Terse(c) : ThrottleWake(c, r)
  \/ \E c \in Callers : ReadChunk(c)
  \/ \E c \in Callers : ReadTimeout(c)
  \/ Loop
  \/ Lose
  \/ DeviceEmit(Len(line))
  \/ Tick

Spec == Init /\ [][Next]_vars

\* ----- framing: an open connection, one caller, any reply, any chunking --
\* a protocol whose connection is up and that nobody uses
Connected ==
  /\ pc = [c \in Tasks |-> "idle"]
  /\ wait = [c \in Tasks |-> TRUE]
  /\ lock = [locked |-> FALSE, waiters |-> << >>]
  /\ connected = TRUE
  /\ transport = "open"
  /\ q = << >>
  /\ ready = << >>
  /\ todo = 0
  /\ inbuf = << >>
  /\ line = << >>
  /\ data = << >>
  /\ armed = FALSE
  /\ remaining = 0
  /\ sinceLast = MinTime
  /\ ret = [c \in Tasks |-> Pending]
  /\ exit = [c \in Tasks |-> "none"]
  /\ submitted = << >>
  /\ contended = FALSE
  /\ wire = << >>
  /\ sinceWrite = MinTime
  /\ dataStale = FALSE
  /\ discarded = {}
  /\ ticked = FALSE
  /\ client = "none"

InitOpen == Connected /\ ClientIdle

\* one caller task that awaits one send after the other
NextFrame ==
  \/ \E c \in FrameCallers :
        /\ \A d \in 1 .. c - 1 : pc[d] = "done"
        /\ Submit(c, TRUE)
  \/ \E c \in FrameCallers : \E r \in Replies(c) : SendCall(c, TRUE, r)
  \/ \E c \in FrameCallers : \E r \in Replies(c) : ThrottleWake(c, r)
  \/ \E c \in FrameCallers : ReadChunk(c)
  \/ \E c \in FrameCallers : ReadTimeout(c)
  \/ Select
  \/ data_received
  \/ QueuePut
  \/ TimerFire
  \/ NopHandle
  \/ \E k \in 1 .. 3 : DeviceEmit(k)
  \/ Tick

FrameSpec == InitOpen /\ [][NextFrame]_vars

\* ----- liveness: a device that may keep sending bytes -------------------
\* the device emits an unsolicited byte that is not the terminator
DeviceChatter ==
  /\ transport = "open"
  /\ line = << >> /\ inbuf = << >> /\ q = << >> /\ ready = << >>
  /\ \E c \in Tasks : pc[c] = "reading"
  /\ line' = <<Chatter>>
  /\ UNCHANGED <<pc, wait, lock, connected, transport, q, ready, todo, inbuf,
                 data, armed, remaining, sinceLast, ret, exit, submitted,
                 contended, wire, sinceWrite, dataStale, discarded, ticked,
                 client>>
  /\ UNCHANGED clientVars

\* lines 122-125 once `data` is longer than the bytes that are tracked: a
\* chunk without the terminator leaves the loop where it is, with a new timer
ReadChunkBeyond(c) ==
  /\ Running(StepH(c, FALSE))
  /\ pc[c] = "reading"
  /\ todo' = todo - 1
  /\ LET res == Consume(data, q)
     IN /\ ~Contains(res.d, EOL)
        /\ Len(res.d) > MaxData
        /\ q' = res.q
        /\ Suspend(c, TRUE, lock, "reading", Timeout, CancelTimer(Tail(ready)))
  /\ UNCHANGED <<connected, transport, inbuf, line, data, sinceLast,
                 submitted, contended, wire, sinceWrite, dataStale, discarded,
                 ticked>>
  /\ UNCHANGED clientVars

NextLive ==
  \/ \E c \in LiveCallers : \E w \in BOOLEAN : Submit(c, w)
  \/ \E c \in LiveCallers : \E w \in BOOLEAN, r \in Terse(c) : SendCall(c, w, r)
  \/ \E c \in LiveCallers : \E r \in Terse(c) : LockResume(c, r)
  \/ \E c \in LiveCallers : \E r \in Terse(c) : ConnectedWake(c, r)
  \/ \E c \in LiveCallers : ConnTimeout(c)
  \/ \E c \in LiveCallers : \E r \in Terse(c) : ThrottleWake(c, r)
  \/ \E c \in LiveCallers : ReadChunk(c)
  \/ \E c \in LiveCallers : ReadChunkBeyond(c)
  \/ \E c \in LiveCallers : ReadTimeout(c)
  \/ Loop
  \/ Lose
  \/ DeviceEmit(Len(line))
  \/ DeviceChatter
  \/ Tick

\* the event loop runs every handle that is scheduled and time passes; the
\* callers, the connection and the device owe nothing
Fairness ==
  /\ \A c \in LiveCallers :
       /\ WF_vars(\E w \in BOOLEAN, r \in Terse(c) : SendCall(c, w, r))
       /\ WF_vars(\E r \in Terse(c) : LockResume(c, r))
       /\ WF_vars(\E r \in Terse(c) : ConnectedWake(c, r))
       /\ WF_vars(ConnTimeout(c))
       /\ WF_vars(\E r \in Terse(c) : ThrottleWake(c, r))
       /\ WF_vars(ReadChunk(c))
       /\ WF_vars(ReadChunkBeyond(c))
       /\ WF_vars(ReadTimeout(c))
  /\ WF_vars(Loop)
  /\ WF_vars(Tick)

LiveSpec == Init /\ [][NextLive]_vars /\ Fairness

TypeOK ==
  /\ pc \in [Tasks -> {"idle", "called", "lockwait", "connwait", "throttle",
                       "reading", "done"}]
  /\ remaining \in 0 .. Max(Timeout, MinTime)
  /\ sinceLast \in 0 .. MinTime
  /\ todo \in 0 .. Len(ready)
  /\ client \in {"none", "pending", "returned", "failed"}

\* ----- claims -----------------------------------------------------------
Pos(seq, x) == CHOOSE i \in 1 .. Len(seq) : seq[i] = x
Wrote(c) == \E i \in 1 .. Len(wire) : wire[i].task = c
Failed == {"timeout", "not_connected", "error"}

\* C1: at most one send call is inside its critical section (from taking
\* the lock to returning or raising), and when a call writes to the
\* transport every call that wrote before it has completed.
C1_OneSendInCriticalSection ==
  /\ \A c, d \in Tasks : (pc[c] \in Holding /\ pc[d] \in Holding) => c = d
  /\ \A i \in 1 .. Len(wire) - 1 : pc[wire[i].task] = "done"

\* two calls have written one after the other while a third one waits
C1_Witness ==
  /\ Len(wire) = 2
  /\ pc[wire[1].task] = "done"
  /\ pc[wire[2].task] = "reading"
  /\ \E d \in Tasks : pc[d] = "lockwait"

\* C2: when send(A) has timed out, the text returned by another send(B)
\* never holds bytes of the device's reply to A, whenever that reply is
\* delivered.
C2_NoLateReplyForNextRequest ==
  \A a, b \in Tasks :
    (a # b /\ exit[a] = "timeout" /\ exit[b] = "response")
      => \A i \in 1 .. Len(ret[b].text) : ret[b].text[i] \notin OwnBytes(a)

\* C3: the inbound queue and the bytes accumulated by the reading send hold
\* only chunks that were handed to data_received after the last buffer
\* clear.
C3_BufferHoldsOnlyFreshBytes ==
  /\ \A i \in 1 .. Len(q) : ~q[i].stale
  /\ (\E c \in Tasks : pc[c] = "reading") => ~dataStale

\* C4: calls are serviced in the order they were submitted: the writes
\* follow the order of submission, and when a call has written, every call
\* submitted before it has completed, whatever its outcome.
C4_FirstComeFirstServed ==
  /\ \A i, j \in 1 .. Len(wire) :
       i < j => Pos(submitted, wire[i].task) < Pos(submitted, wire[j].task)
  /\ \A i \in 1 .. Len(wire) :
       \A k \in 1 .. Pos(submitted, wire[i].task) - 1 :
         pc[submitted[k]] = "done"

\* two calls queued for the lock together behind a call that failed, and
\* both have written
C4_Witness ==
  /\ contended
  /\ Len(submitted) = NumTasks
  /\ exit[submitted[1]] \in Failed
  /\ Wrote(submitted[NumTasks - 1])
  /\ Wrote(submitted[NumTasks])

\* C5: a send that waited for the connection and ends with the connection
\* flag still false ends not connected, writes nothing, and its outcome
\* differs from the outcome of a send that expects no reply (the normal
\* absent result).
C5_NotConnectedIsDistinct ==
  [][\A c \in Tasks :
       (pc[c] = "connwait" /\ pc'[c] = "done" /\ ~connected)
         => /\ exit'[c] = "not_connected"
            /\ wire' = wire
            /\ \A d \in Tasks : exit[d] = "no_reply" => ret'[c] # ret[d]]_vars

\* C6: any two consecutive writes to the transport are at least MinTime
\* apart.
C6_MinTimeBetweenWrites ==
  \A i \in 2 .. Len(wire) : wire[i].gap >= MinTime

\* a write directly after a send that did not wait for a reply
C6_Witness ==
  /\ Len(wire) >= 2
  /\ exit[wire[1].task] = "no_reply"
  /\ wire[2].gap = MinTime
  /\ sinceWrite = 0

\* C7: every send call eventually returns or raises.
C7_EverySendReturns ==
  \A c \in Tasks : (pc[c] \in InSend) ~> (pc[c] = "done")

\* C8: when connection_lost comes while a send waits for its reply, the
\* connected flag is cleared and that send no longer waits for the reply.
C8_LossFailsOutstandingRequest ==
  [][(transport = "open" /\ transport' = "closed")
       => /\ ~connected'
          /\ \A c \in Tasks : pc[c] = "reading" => pc'[c] # "reading"]_vars

\* C9: the lock is released on every way out of send: it is held only while
\* a send executes, and a free lock with waiters has woken the first one.
C9_LockReleasedOnEveryExit ==
  /\ lock.locked => \E c \in Tasks : pc[c] \in Holding
  /\ (~lock.locked /\ lock.waiters # << >>)
       => HasStep(ready, Head(lock.waiters))
  /\ \A c \in Tasks : pc[c] = "lockwait" <=> Contains(lock.waiters, c)

\* after a timeout the queued send has taken the lock and written
C9_Witness ==
  \E c, d \in Tasks :
    /\ exit[c] = "timeout"
    /\ pc[d] = "reading"
    /\ Wrote(d)
    /\ Pos(submitted, c) < Pos(submitted, d)
    /\ lock.locked

AllEOL(s) == \A i \in 1 .. Len(s) : s[i] = EOL

\* text t is the decoded first non-empty segment of buffer d
IsFirstSegment(t, d) ==
  \/ AllEOL(d) /\ t = << >>
  \/ \E i \in 1 .. Len(d), j \in 1 .. Len(d) :
       /\ i <= j
       /\ AllEOL(SubSeq(d, 1, i - 1))
       /\ ~Contains(SubSeq(d, i, j), EOL)
       /\ j = Len(d) \/ d[j + 1] = EOL
       /\ t = Decode(SubSeq(d, i, j))

\* C10: a send that returns a response returns the (decoded) first
\* non-empty segment of the received buffer; the bytes of the later
\* segments are in no returned text, and the next send starts from an
\* empty buffer.
C10_ReturnsFirstSegmentOnly ==
  [][\A c \in Tasks :
       /\ (exit[c] = "none" /\ exit'[c] = "response")
            => /\ Contains(data', EOL)
               /\ ret'[c].kind = "text"
               /\ IsFirstSegment(ret'[c].text, data')
               /\ \A i \in 1 .. Len(ret'[c].text) :
                    ret'[c].text[i] \notin discarded'
       /\ (pc[c] # "reading" /\ pc'[c] = "reading") => data' = << >>]_vars

\* a response taken from a buffer of two non-empty segments, by a send
\* that came after another one
C10_Witness ==
  \E c \in Tasks :
    /\ exit[c] = "response"
    /\ Len(wire) >= 2
    /\ wire[Len(wire)].task = c
    /\ Len(SelectSeq(Split(data, EOL), NonEmpty)) >= 2
    /\ ret[c].text = <<Tag(c)>>
    /\ Tag2(c) \in discarded

\* the handle the loop runs is a step of a send (which acts under the lock)
SendStep == todo > 0 /\ ready # << >> /\ Head(ready).k \in {"call", "step"}

\* C11: the connected flag, the last-send stamp and the inbound queue are
\* changed only by steps of a send, which hold the lock: no callback of
\* the protocol changes them.
C11_SharedStateOnlyUnderLock ==
  [][(connected' # connected \/ q' # q \/ wire' # wire) => SendStep]_vars

\* C12: the timeout error that send raises carries the bytes that were
\* received for the request before the timeout.
C12_TimeoutCarriesPartialBytes ==
  [][\A c \in Tasks :
       (exit[c] = "none" /\ exit'[c] = "timeout") => ret'[c].text = data]_vars

\* the number of writes of caller c on the transport
Writes(c) == Cardinality({i \in 1 .. Len(wire) : wire[i].task = c})

\* C13: every call of send writes its command at most once, and a call
\* that ended not connected has written nothing; no outcome is followed by
\* another write of the same call.
C13_OneAttemptPerCall ==
  \A c \in Tasks :
    /\ Writes(c) <= 1
    /\ exit[c] = "not_connected" => Writes(c) = 0
    /\ exit[c] \in {"timeout", "response", "no_reply"} => Writes(c) = 1

\* a call that timed out and a call that ended not connected, a whole
\* throttle interval after the last write
C13_Witness ==
  \E c, d \in Tasks :
    /\ exit[c] = "timeout"
    /\ exit[d] = "not_connected"
    /\ sinceWrite = MinTime
    /\ ready = << >>


C14_WitnessFailed == client = "failed" /\ exit[1] = "timeout"


\* C16: the flag is set exactly from connection_made to connection_lost, a
\* closed transport stays closed, and once connection_lost has run a send
\* that has not yet passed ensure_connected writes nothing and can only end
\* not connected
BeforeBody(c) == pc[c] \in {"idle", "called", "lockwait", "connwait"}

C16_ConnectionLifecycle ==
  [][/\ connected' <=> (transport' = "open")
     /\ transport = "open" => transport' # "none"
     /\ transport = "closed" =>
          /\ transport' = "closed"
          /\ \A c \in Tasks :
               BeforeBody(c) =>
                 /\ Writes(c)' = Writes(c)
                 /\ exit'[c] \in {exit[c], "not_connected"}]_vars

C16_Witness ==
  /\ transport = "closed" /\ ~connected
  /\ \E c, d \in Tasks :
       /\ exit[c] = "response" /\ exit[d] = "not_connected"
       /\ Writes(d) = 0 /\ Len(wire) = 1


\* C17: a send that expects no reply ends in the step that writes: it writes
\* once, stamps the time of the send, returns absent and never reads
NoReply(c) ==
  \/ pc[c] = "called" /\ HasKind(ready, "call") /\
       \E i \in 1 .. Len(ready) : ready[i] = CallH(c, FALSE)
  \/ pc[c] \in {"lockwait", "connwait", "throttle"} /\ ~wait[c]

C17_NoReplyReturnsAfterWrite ==
  [][\A c \in Tasks :
       /\ NoReply(c) => pc'[c] # "reading"
       /\ NoReply(c) /\ Writes(c)' # Writes(c) => exit'[c] = "no_reply"
       /\ exit[c] = "none" /\ exit'[c] = "no_reply" =>
            /\ NoReply(c)
            /\ Writes(c) = 0 /\ Writes(c)' = 1
            /\ sinceLast' = 0
            /\ ret'[c] = RetNone
            /\ pc'[c] = "done"
            /\ data' = data
            /\ ~armed']_vars

C17_Witness ==
  \E c \in Tasks :
    /\ exit[c] = "no_reply" /\ ret[c] = RetNone /\ Writes(c) = 1
    /\ line # << >> /\ sinceLast = 0


\* ----- the integration: setting up a config entry -------------------------
SUPPORTED_MODELS == {"mx160", "mx170", "mx180"}

\* model ids a config entry may carry
Models == SUPPORTED_MODELS \cup {"mx999"}

\* how the send of the init command can end
InitEnds == {RetText(<<"!VERB">>), RaiseTimeout}

Returns(v) == [kind |-> "return", value |-> v]
Raises(e) == [kind |-> "raise", value |-> e]

\* async_get_mcintosh(model_id, url, loop): `opens` tells whether
\* create_serial_connection gets a transport, `init` how the init send ends
async_get_mcintosh(model_id, opens, init) ==
  IF model_id \notin SUPPORTED_MODELS THEN Returns("None")
  ELSE IF ~opens THEN Raises("SerialException")
  ELSE IF InitOutcome(init) = "failed" THEN Raises(init.kind)
  ELSE Returns("client")

\* lines 36-45 of connect_to_device: the client is made and registered, or
\* ConfigEntryNotReady is raised
Connecting(e, model_id, opens, init) ==
  LET r == async_get_mcintosh(model_id, opens, init)
  IN IF r.kind = "raise"
     THEN /\ setup' = [entry |-> e, model |-> model_id, opens |-> opens,
                       init |-> init.kind,
                       result |-> "ConfigEntryNotReady"]
          /\ UNCHANGED hass_data
     ELSE /\ setup' = [entry |-> e, model |-> model_id, opens |-> opens,
                       init |-> init.kind, result |-> "registered"]
          /\ hass_data' = [hass_data EXCEPT ![e] = r.value]

\* connect_to_device(hass, entry), also run by config_update_listener
connect_to_device(e, model_id, opens, init) ==
  /\ Connecting(e, model_id, opens, init)
  /\ UNCHANGED <<cycle, fetching, mcdata, range_fetched, reply, got, sent,
                 arg, player>>
  /\ UNCHANGED <<frontVars, protocolVars>>

NextSetup ==
  \E e \in Entries, model_id \in Models, opens \in BOOLEAN, init \in InitEnds :
    connect_to_device(e, model_id, opens, init)

SetupSpec == InitOpen /\ [][NextSetup]_vars

\* C15: a setup whose model is not supported or whose transport does not
\* open ends with an error, and no entry ever holds a value that is not a
\* client
C15_NoClientNoRegistration ==
  /\ \A e \in Entries : hass_data[e] \in {"absent", "client"}
  /\ setup.result # "none" /\
       (setup.model \notin SUPPORTED_MODELS \/ ~setup.opens)
       => setup.result = "ConfigEntryNotReady"


\* ----- the client library: getters ----------------------------------------
BoolGetters == {"power", "mute", "zone_2.power", "zone_2.mute", "loudness"}
IntGetters ==
  {"volume", "max_vol", "zone_2.volume", "bass", "treble", "lipsync",
   "center", "lfe", "surrounds", "height"}
Getters == BoolGetters \cup IntGetters \cup {"source", "lipsync_range"}

\* the command names a getter looks for in the response; a name is one symbol
Prefix(g) ==
  CASE g = "power" -> {"!POWER"}
    [] g = "volume" -> {"!VOL"}
    [] g = "max_vol" -> {"!MAXVOL"}
    [] g = "mute" -> {"!MUTE"}
    [] g = "source" -> {"!SRC"}
    [] g = "zone_2.power" -> {"!POWER"}
    [] g = "zone_2.volume" -> {"!ZVOL"}
    [] g = "zone_2.mute" -> {"!ZMUTE"}
    [] g = "bass" -> {"!TRIMBASS"}
    [] g = "treble" -> {"!TRIMTREB", "!TRIMTREBLE"}
    [] g = "loudness" -> {"!LOUDNESS"}
    [] g = "lipsync" -> {"!LIPSYNC"}
    [] g = "lipsync_range" -> {"!LIPSYNCRANGE"}
    [] g = "center" -> {"!TRIMCENTER"}
    [] g = "lfe" -> {"!TRIMLFE"}
    [] g = "surrounds" -> {"!TRIMSURRS"}
    [] g = "height" -> {"!TRIMHEIGHT"}

supports_everything(model_id) == TRUE

\* MODEL_CONFIGS[model_id]['supports_max_volume_query']
supports_max_volume_query(model_id) == model_id \in {"mx170", "mx180"}

\* the characters a response is made of, besides command names
Chars == {"(", ")", "1", "0", "-", "x"}
Symbols(g) ==
  Prefix(g) \cup Chars \cup (IF g = "lipsync_range" THEN {","} ELSE {})
Texts(g) == UNION {[1 .. n -> Symbols(g)] : n \in 0 .. MaxText}

\* `'!NAME(' in response`
HasPrefix(g, t) ==
  \E i \in 1 .. Len(t) - 1 : t[i] \in Prefix(g) /\ t[i + 1] = "("

\* response.split('(')[1]
AfterParen(t) == Split(t, "(")[2]

\* response.split('(')[1].split(')')[0]
Payload(t) == Split(AfterParen(t), ")")[1]

Digits == <<"0", "1", "2", "3", "4", "5", "6", "7", "8", "9">>

IsDigit(ch) == \E i \in 1 .. Len(Digits) : Digits[i] = ch

DigitValue(ch) == (CHOOSE i \in 1 .. Len(Digits) : Digits[i] = ch) - 1

RECURSIVE Decimal(_)
Decimal(d) ==
  IF d = << >> THEN 0
  ELSE 10 * Decimal(SubSeq(d, 1, Len(d) - 1)) + DigitValue(d[Len(d)])

RECURSIVE Numeral(_)
\* str(n) of a natural number
Numeral(n) ==
  IF n < Len(Digits) THEN <<Digits[n + 1]>>
  ELSE Numeral(n \div Len(Digits)) \o <<Digits[(n % Len(Digits)) + 1]>>

\* str(n), as an f-string formats an int
Str(n) == IF n < 0 THEN <<"-">> \o Numeral(0 - n) ELSE Numeral(n)

RECURSIVE Strip(_, _)
\* str.strip(chars): the symbols of `chars` are taken off both ends
Strip(t, chars) ==
  IF t # << >> /\ t[1] \in chars THEN Strip(Tail(t), chars)
  ELSE IF t # << >> /\ t[Len(t)] \in chars
  THEN Strip(SubSeq(t, 1, Len(t) - 1), chars)
  ELSE t

\* the static table of source names, index 0 first
SOURCES ==
  <<"HDMI 1", "HDMI 2", "HDMI 3", "HDMI 4", "HDMI 5", "HDMI 6", "HDMI 7",
    "HDMI 8", "Audio Return", "SPDIF 1 (Optical)", "SPDIF 2 (Optical)",
    "SPDIF 3 (Optical)", "SPDIF 4 (Optical)", "SPDIF 5 (AES/EBU)",
    "SPDIF 6 (Coaxial)", "SPDIF 7 (Coaxial)", "SPDIF 8 (Coaxial)",
    "USB Audio", "Analog 1", "Analog 2", "Analog 3", "Analog 4",
    "Balanced 1", "Balanced 2", "Phono", "8 Channel Analog">>

SourceIds == 0 .. Len(SOURCES) - 1

\* SOURCES.get(n, '')
SourceName(n) == IF n \in SourceIds THEN <<SOURCES[n + 1]>> ELSE << >>

\* int(s) of Python on these characters: an optional sign and digits, or
\* ValueError
IsInt(p) ==
  LET d == IF p # << >> /\ p[1] = "-" THEN Tail(p) ELSE p
  IN d # << >> /\ \A i \in 1 .. Len(d) : IsDigit(d[i])

IntOf(p) == IF p[1] = "-" THEN 0 - Decimal(Tail(p)) ELSE Decimal(p)

\* lines 738-741 of Source.get, once the prefix is there
SourceOf(t) ==
  LET parts == Split(AfterParen(t), ")")
  IN IF ~IsInt(parts[1]) THEN GotRaise("ValueError")
     ELSE GotSource(IntOf(parts[1]),
                    IF Len(parts) > 1
                    THEN Strip(Strip(parts[2], {" "}), {"\""})
                    ELSE SourceName(IntOf(parts[1])))

\* the name of the query a getter sends
QueryName(g) ==
  CASE g = "zone_2.power" -> "!POWERZONE2"
    [] g = "treble" -> "!TRIMTREB"
    [] OTHER -> CHOOSE p \in Prefix(g) : TRUE

\* McIntoshAsync._send_command: (command + COMMAND_EOL).encode('ascii')
Request(command) == command \o <<"\r">>

\* the requests a getter hands to protocol.send
Queries(g, model_id) ==
  IF g = "max_vol" /\ ~supports_max_volume_query(model_id) THEN << >>
  ELSE <<Request(<<QueryName(g), "?">>)>>

\* the getters of the Async*Control classes, on the outcome o of
\* _send_command
Getter(g, model_id, o) ==
  IF g = "max_vol" /\ ~supports_max_volume_query(model_id) THEN Absent
  ELSE IF o.kind \in {"TimeoutError", "Error"} THEN GotRaise(o.kind)
  ELSE IF o.kind = "None" \/ o.text = << >> \/ ~HasPrefix(g, o.text)
  THEN Absent
  ELSE IF g \in BoolGetters THEN GotBool(Payload(o.text) = <<"1">>)
  ELSE IF g \in IntGetters
  THEN IF IsInt(Payload(o.text)) THEN GotInt(IntOf(Payload(o.text)))
       ELSE GotRaise("ValueError")
  ELSE IF g = "source" THEN SourceOf(o.text)
  ELSE LET values == Split(Payload(o.text), ",")
       IN IF Len(values) # 2 THEN Absent
          ELSE IF IsInt(values[1]) /\ IsInt(values[2])
          THEN GotDict(IntOf(values[1]), IntOf(values[2]))
          ELSE GotRaise("ValueError")

\* replies of the shape the device gives: for the source an index of the
\* table, closed or not, and after it nothing or a quoted name
NameTails == {<< >>, <<" ", "\"", "CD", "\"">>, <<"\"", "CD", "\"">>}

SourceLines ==
  {<<"!SRC", "(">> \o Numeral(n) \o <<")">> \o tail :
     n \in SourceIds, tail \in NameTails}
    \cup {<<"!SRC", "(">> \o Numeral(n) : n \in SourceIds}

\* the status lines of field f: its name and a payload in parentheses
StatusLines(f) == {<<p, "(", v, ")">> : p \in Prefix(f), v \in {"0", "1"}}

\* the fields whose status line carries a name of its own (the zone 2 power
\* getter looks for the name of the main zone)
Reported == Getters \ {"zone_2.power"}

AnyStatusLine == UNION {StatusLines(f) : f \in Reported}

\* what a send of getter g may return besides short texts: the status line
\* of any field, and the line of g with another status line before it
Shaped(g) ==
  (IF g = "source" THEN SourceLines ELSE {})
    \cup AnyStatusLine
    \cup {l1 \o l2 : l1 \in AnyStatusLine, l2 \in StatusLines(g)}

\* how the send of a getter can end
SendEnds(g) ==
  {RetNone, RaiseTimeout} \cup {RetText(t) : t \in Texts(g) \cup Shaped(g)}

\* a getter is about to be called on a client; its send ends in any way
GetterInit ==
  /\ Connected
  /\ hass_data = [e \in Entries |-> "client"]
  /\ setup = NoSetup
  /\ cycle = "idle"
  /\ fetching = 0
  /\ mcdata = {}
  /\ range_fetched = FALSE
  /\ sent = << >>
  /\ arg = 0
  /\ player = NoPlayer
  /\ FrontIdle
  /\ pair = NoPair
  /\ \E g \in Getters :
       /\ \E model_id \in (IF g = "max_vol" THEN SUPPORTED_MODELS
                           ELSE {"mx170"}) :
            got = [getter |-> g, model |-> model_id, result |-> NotCalled]
       /\ reply \in SendEnds(g)

Get(g) ==
  /\ got.getter = g
  /\ got.result = NotCalled
  /\ got' = [got EXCEPT !.result = Getter(g, got.model, reply)]
  /\ sent' = sent \o Queries(g, got.model)
  /\ UNCHANGED <<hass_data, setup, cycle, fetching, mcdata, range_fetched,
                 reply, arg, player>>
  /\ UNCHANGED <<frontVars, protocolVars>>

NextGetter == \E g \in Getters : Get(g)

GetterSpec == GetterInit /\ [][NextGetter]_vars

\* C19: an integer getter whose reply has the expected prefix gives a value
\* or absent, and absent when the payload is not a signed integer; it never
\* raises because of what the reply holds
C19_IntGetterNeverRaises ==
  got.getter \in IntGetters /\ got.result # NotCalled /\ reply.kind = "text"
    => /\ got.result.kind \in {"int", "absent"}
       /\ HasPrefix(got.getter, reply.text) /\ ~IsInt(Payload(reply.text))
            => got.result = Absent

\* C20: a boolean getter decodes payload 1 to true, payload 0 to false and
\* any other payload to absent
C20_BoolGetterDecodes ==
  /\ got.getter \in BoolGetters /\ got.result # NotCalled
  /\ reply.kind = "text" /\ HasPrefix(got.getter, reply.text)
  => got.result = (CASE Payload(reply.text) = <<"1">> -> GotBool(TRUE)
                     [] Payload(reply.text) = <<"0">> -> GotBool(FALSE)
                     [] OTHER -> Absent)


\* ----- the coordinator: one poll cycle after the other --------------------
\* the getters of _async_update_data, in the order of its awaits
Fields ==
  <<"power", "volume", "mute", "source", "loudness", "bass", "treble",
    "lipsync", "lipsync_range", "center", "lfe", "surrounds", "height">>

\* replies of the device to the query of a getter: a well-formed one, and
\* one whose payload is not a number
PollTexts(g) ==
  IF g = "lipsync_range"
  THEN {<<p, "(", "0", ",", "1", ")">> : p \in Prefix(g)}
         \cup {<<p, "(", "x", ")">> : p \in Prefix(g)}
  ELSE {<<p, "(", v, ")">> : p \in Prefix(g), v \in {"1", "0", "x"}}

PollEnds(g) == {RetNone, RaiseTimeout} \cup {RetText(t) : t \in PollTexts(g)}

\* the field fetched after field i; the range of lipsync is fetched until it
\* has been got once
FieldAfter(i, fetched) ==
  IF i + 1 <= Len(Fields) /\ Fields[i + 1] = "lipsync_range" /\ fetched
  THEN i + 2
  ELSE i + 1

\* what ends the cycle with UpdateFailed: an exception of the getter, caught
\* by `except Exception` of line 142, and a power that is None (lines 73-74)
Aborts(g, r) == r.kind = "raise" \/ (g = "power" /\ r.kind = "absent")

SkipsNothing(g, r) == FALSE

\* `if power:` around the other queries, in the coordinator and the player
SkipsRest(g, r) == g = "power" /\ ~r.b

\* _async_update_data is called
PollStart ==
  /\ cycle # "running"
  /\ cycle' = "running"
  /\ fetching' = 1
  /\ mcdata' = {}
  /\ reply' = Pending
  /\ got' = NoGet
  /\ sent' = << >>
  /\ UNCHANGED <<hass_data, setup, range_fetched, arg, player>>
  /\ UNCHANGED <<frontVars, protocolVars>>

\* one await of _async_update_data: the getter of the next field runs, its
\* send ending with o, and the cycle goes on, returns or fails
Fetch(g, o) ==
  /\ cycle = "running"
  /\ ~player.updating
  /\ g = Fields[fetching]
  /\ LET r == Getter(g, "mx170", o)
         assigned == r.kind # "absent"
         next == FieldAfter(fetching, range_fetched)
     IN /\ reply' = o
        /\ got' = [getter |-> g, model |-> "mx170", result |-> r]
        /\ sent' = sent \o Queries(g, "mx170")
        /\ IF Aborts(g, r)
           THEN /\ cycle' = "UpdateFailed"
                /\ fetching' = 0
                /\ UNCHANGED <<mcdata, range_fetched>>
           ELSE /\ mcdata' = IF assigned THEN mcdata \cup {g} ELSE mcdata
                /\ range_fetched' =
                     (range_fetched \/ (g = "lipsync_range" /\ assigned))
                /\ IF SkipsRest(g, r) \/ next > Len(Fields)
                   THEN cycle' = "returned" /\ fetching' = 0
                   ELSE cycle' = "running" /\ fetching' = next
  /\ UNCHANGED <<hass_data, setup, arg, player>>
  /\ UNCHANGED <<frontVars, protocolVars>>

NextPoll ==
  \/ PollStart
  \/ \E g \in Getters : \E o \in PollEnds(g) : Fetch(g, o)

PollSpec == InitOpen /\ [][NextPoll]_vars

ClientTypeOK ==
  /\ hass_data \in [Entries -> {"absent", "None", "client"}]
  /\ setup.result \in {"none", "registered", "ConfigEntryNotReady"}
  /\ cycle \in {"idle", "running", "returned", "UpdateFailed", "logged"}
  /\ fetching \in 0 .. Len(Fields)
  /\ cycle = "running" <=> fetching > 0
  /\ mcdata \subseteq Getters
  /\ range_fetched \in BOOLEAN
  /\ got.getter \in Getters \cup {""}

\* C18: a fetch of power that is absent or fails ends the cycle with
\* UpdateFailed, and the cycle goes on after the fetch of any other field
\* whose send timed out or was not connected
C18_OnlyPowerAborts ==
  [][cycle = "running" =>
       /\ got'.getter = "power" /\ got'.result.kind \in {"absent", "raise"}
            => cycle' = "UpdateFailed"
       /\ got'.getter # "power" /\ reply'.kind \in {"None", "TimeoutError"}
            => cycle' # "UpdateFailed"]_vars


\* C21: Source.get gives index n and name NAME for a reply !SRC(n) "NAME",
\* and index n with the name of n in the table for a reply !SRC(n) without a
\* name, for every index of the table
C21_SourceDecodes ==
  got.getter = "source" /\ got.result # NotCalled /\ reply.kind = "text" =>
    \A n \in SourceIds :
      /\ reply.text = <<"!SRC", "(">> \o Numeral(n) \o <<")">>
           => got.result = GotSource(n, SourceName(n))
      /\ reply.text = <<"!SRC", "(">> \o Numeral(n)
                        \o <<")", " ", "\"", "CD", "\"">>
           => got.result = GotSource(n, <<"CD">>)


\* C22: get_range gives {min, max} when the payload of a !LIPSYNCRANGE( reply
\* is two integers with a comma between, and absent for every other payload
C22_RangeDecodesOrAbsent ==
  /\ got.getter = "lipsync_range" /\ got.result # NotCalled
  /\ reply.kind = "text" /\ HasPrefix("lipsync_range", reply.text)
  => LET values == Split(Payload(reply.text), ",")
     IN got.result =
          (IF Len(values) = 2 /\ IsInt(values[1]) /\ IsInt(values[2])
           THEN GotDict(IntOf(values[1]), IntOf(values[2]))
           ELSE Absent)


\* index of the first opening parenthesis of t
FirstParen(t) ==
  CHOOSE i \in 1 .. Len(t) : t[i] = "(" /\ \A j \in 1 .. i - 1 : t[j] # "("

\* C23: the status line of another field gives absent, and what a getter
\* decodes is the payload that follows the name of its own field
C23_OnlyOwnPrefixDecoded ==
  got.result # NotCalled /\ reply.kind = "text" =>
    /\ \A f \in Reported \ {got.getter} :
         reply.text \in StatusLines(f) => got.result = Absent
    /\ got.result.kind \in {"bool", "int", "dict"} =>
         /\ FirstParen(reply.text) > 1
         /\ reply.text[FirstParen(reply.text) - 1] \in Prefix(got.getter)


\* ----- the volume, set and read back --------------------------------------
\* levels a caller may hand to Volume.set, some below 0 and some above 99
Levels == (0 - 3) .. MaxLevel

VolumeLevelUnclamped(level) == level

\* Volume.set: level = max(0, min(99, level))
VolumeLevel(level) == Max(0, Min(99, level))

\* Volume.set: the command f'!VOL({level})'
VolumeCommand(level) == <<"!VOL", "(">> \o Str(VolumeLevel(level)) \o <<")">>

VolumeInit ==
  /\ Connected
  /\ hass_data = [e \in Entries |-> "client"]
  /\ setup = NoSetup
  /\ cycle = "idle"
  /\ fetching = 0
  /\ mcdata = {}
  /\ range_fetched = FALSE
  /\ reply = Pending
  /\ got = [getter |-> "volume", model |-> "mx170", result |-> NotCalled]
  /\ sent = << >>
  /\ arg \in Levels
  /\ player = NoPlayer
  /\ FrontIdle
  /\ pair = NoPair

\* Volume.set(arg) hands its command to protocol.send
VolumeSet ==
  /\ sent = << >>
  /\ sent' = <<Request(VolumeCommand(arg))>>
  /\ UNCHANGED <<hass_data, setup, cycle, fetching, mcdata, range_fetched,
                 reply, got, arg, player>>
  /\ UNCHANGED <<frontVars, protocolVars>>

\* the device reports the volume it was set to: the status line has the
\* shape of the command
VolumeReport ==
  /\ Len(sent) = 1
  /\ reply = Pending
  /\ reply' = RetText(SubSeq(sent[1], 1, Len(sent[1]) - 1))
  /\ UNCHANGED <<hass_data, setup, cycle, fetching, mcdata, range_fetched,
                 got, sent, arg, player>>
  /\ UNCHANGED <<frontVars, protocolVars>>

NextVolume ==
  \/ VolumeSet
  \/ VolumeReport
  \/ reply # Pending /\ Get("volume")

VolumeSpec == VolumeInit /\ [][NextVolume]_vars

\* C24: Volume.set(n) writes !VOL(c) and one carriage return with c the level
\* n clamped to 0..99, and Volume.get on the reply !VOL(c) gives c
C24_VolumeRoundTrip ==
  LET c == IF arg < 0 THEN 0 ELSE IF arg > 99 THEN 99 ELSE arg
  IN /\ sent # << >> =>
          /\ sent[1] = <<"!VOL", "(">> \o Numeral(c) \o <<")", "\r">>
          /\ Len(SelectSeq(sent[1], LAMBDA ch : ch = "\r")) = 1
     /\ reply # Pending =>
          reply = RetText(<<"!VOL", "(">> \o Numeral(c) \o <<")">>)
     /\ got.result # NotCalled => got.result = GotInt(c)

C24_Witness ==
  /\ arg > 99 /\ got.result = GotInt(99)
  /\ sent = <<<<"!VOL", "(", "9", "9", ")", "\r">>, <<"!VOL", "?", "\r">>>>

C24_WitnessBelow == arg < 0 /\ got.result = GotInt(0)


\* C25: on a model whose profile has supports_max_volume_query false,
\* Volume.max_vol gives absent and hands no request to the protocol; on the
\* other models it hands over exactly one !MAXVOL? query
C25_MaxVolGated ==
  got.getter = "max_vol" =>
    /\ got.result = NotCalled => sent = << >>
    /\ got.result # NotCalled =>
         IF got.model = "mx160"
         THEN got.result = Absent /\ sent = << >>
         ELSE sent = <<<<"!MAXVOL", "?", "\r">>>>

C25_Witness ==
  /\ got.getter = "max_vol" /\ got.model = "mx160" /\ got.result = Absent
  /\ reply = RetText(<<"!MAXVOL", "(", "1", ")">>)
  /\ sent = << >>

C25_WitnessSupported ==
  /\ got.getter = "max_vol" /\ got.model = "mx180" /\ got.result = GotInt(1)
  /\ Len(sent) = 1


\* ----- the media player ---------------------------------------------------
\* the getters of async_update, in the order of its awaits
PlayerFields == <<"power", "volume", "mute", "source">>

\* self._source_name_to_id of a player that uses the default sources
SourceNames == {SOURCES[i] : i \in 1 .. Len(SOURCES)}
SourceId(name) == (CHOOSE i \in 1 .. Len(SOURCES) : SOURCES[i] = name) - 1

\* self._source_id_to_name.get(source_id)
SourceLabel(n) == IF n \in SourceIds THEN SOURCES[n + 1] ELSE "None"

\* names a user may select: the listed ones and one that is not listed
Selectable == SourceNames \cup {"Tuner"}

\* Source.set: the command f'!SRC({source})'
SourceCommand(n) == <<"!SRC", "(">> \o Str(n) \o <<")">>

\* async_update is called
UpdateStart ==
  /\ cycle # "running"
  /\ cycle' = "running"
  /\ fetching' = 1
  /\ mcdata' = {}
  /\ reply' = Pending
  /\ got' = NoGet
  /\ sent' = << >>
  /\ player' = [player EXCEPT !.updating = TRUE]
  /\ UNCHANGED <<hass_data, setup, range_fetched, arg>>
  /\ UNCHANGED <<frontVars, protocolVars>>

\* one await of async_update: the getter of the next field runs, its send
\* ending with o; an exception is logged and ends the update
UpdateFetch(g, o) ==
  /\ cycle = "running"
  /\ player.updating
  /\ g = PlayerFields[fetching]
  /\ LET r == Getter(g, "mx170", o)
         ends == \/ r.kind = "raise"
                 \/ g = "power" /\ r.kind = "absent"
                 \/ SkipsRest(g, r)
                 \/ fetching = Len(PlayerFields)
     IN /\ reply' = o
        /\ got' = [getter |-> g, model |-> "mx170", result |-> r]
        /\ sent' = sent \o Queries(g, "mx170")
        /\ cycle' = IF r.kind = "raise" THEN "logged"
                    ELSE IF ends THEN "returned" ELSE "running"
        /\ fetching' = IF ends THEN 0 ELSE fetching + 1
        /\ mcdata' = IF r.kind \in {"raise", "absent"} THEN mcdata
                     ELSE mcdata \cup {g}
        /\ player' =
             [player EXCEPT
                !.updating = ~ends,
                !.state = IF g = "power" /\ r.kind = "bool"
                          THEN (IF r.b THEN "on" ELSE "off") ELSE @,
                !.source = IF g = "source" /\ r.kind = "dict"
                           THEN SourceLabel(r.n) ELSE @]
  /\ UNCHANGED <<hass_data, setup, range_fetched, arg>>
  /\ UNCHANGED <<frontVars, protocolVars>>

SelectsAnything(name) == TRUE

\* async_select_source: `if source not in self._source_name_to_id: return`
Selects(name) == name \in SourceNames

\* async_select_source(name)
async_select_source(name) ==
  /\ cycle # "running"
  /\ sent' = IF Selects(name)
             THEN <<Request(SourceCommand(
                      IF name \in SourceNames THEN SourceId(name) ELSE 0 - 1))>>
             ELSE << >>
  /\ player' = [player EXCEPT !.selected = name]
  /\ UNCHANGED <<hass_data, setup, cycle, fetching, mcdata, range_fetched,
                 reply, got, arg>>
  /\ UNCHANGED <<frontVars, protocolVars>>

\* the coordinator polls and the player updates, one after the other
NextUpdate ==
  \/ PollStart
  \/ \E g \in Getters : \E o \in PollEnds(g) : Fetch(g, o)
  \/ UpdateStart
  \/ \E g \in Getters : \E o \in PollEnds(g) : UpdateFetch(g, o)

UpdateSpec == InitOpen /\ [][NextUpdate]_vars

\* the player updates and the user selects sources
NextPlayer ==
  \/ UpdateStart
  \/ \E g \in Getters : \E o \in PollEnds(g) : UpdateFetch(g, o)
  \/ \E name \in Selectable : async_select_source(name)

PlayerSpec == InitOpen /\ [][NextPlayer]_vars

\* C26: when the power query of a poll or of an update gives off, the poll
\* ends there with power off reported and no query but the one of power
C26_PowerOffStopsPoll ==
  [][/\ cycle = "running"
     /\ got'.getter = "power" /\ got'.result = GotBool(FALSE)
     => /\ cycle' = "returned"
        /\ sent' = <<<<"!POWER", "?", "\r">>>>
        /\ "power" \in mcdata'
        /\ player.updating => player'.state = "off"]_vars

C26_Witness ==
  /\ cycle = "returned" /\ got = [getter |-> "power", model |-> "mx170",
                                  result |-> GotBool(FALSE)]
  /\ player.state = "off" /\ Len(sent) = 1 /\ range_fetched


\* the query of get_range, as handed to the protocol
RangeQuery == Request(<<QueryName("lipsync_range"), "?">>)

RangeAsked(s) == \E i \in 1 .. Len(s) : s[i] = RangeQuery

\* C27: the lipsync range is fetched once per coordinator: get_range is
\* never called once it has returned a range; a poll in which it returns a
\* range ends by returning data that carries the range; and a poll that
\* finds the power on, before any poll got a range, calls get_range.
C27_RangeFetchedOnce ==
  [][/\ (cycle = "running" /\ got'.getter = "lipsync_range")
          => ~range_fetched
     /\ (cycle = "running" /\ cycle' # "running"
           /\ "lipsync_range" \in mcdata')
          => cycle' = "returned"
     /\ (cycle = "running" /\ cycle' # "running" /\ Len(sent') > 1)
          => \/ RangeAsked(sent')
             \/ range_fetched' /\ "lipsync_range" \notin mcdata']_vars

\* a poll got the range and then failed: its data is dropped, and the range
\* counts as fetched
C27_RangeLost ==
  /\ cycle = "UpdateFailed" /\ range_fetched
  /\ "lipsync_range" \in mcdata
  /\ got.getter = "center" /\ got.result = GotRaise("ValueError")


\* C28: selecting a name that is not in the source list of the player sends
\* no command and leaves the state of the player as it was; selecting a
\* listed name sends exactly one command, !SRC(id) with the id of that name.
C28_SelectSource ==
  [][cycle # "running" /\ cycle' # "running"
       => LET name == player'.selected
          IN IF name \in SourceNames
             THEN /\ Len(sent') = 1
                  /\ sent'[1] = <<"!SRC", "(">> \o Str(SourceId(name))
                                   \o <<")", "\r">>
             ELSE /\ sent' = << >>
                  /\ player'.state = player.state
                  /\ player'.source = player.source
                  /\ player'.updating = player.updating]_vars

\* HDMI 2 has been selected while the player showed HDMI 1
C28_Witness ==
  /\ player.selected = "HDMI 2" /\ player.source = "HDMI 1"
  /\ player.state = "on" /\ cycle = "returned"
  /\ sent = <<<<"!SRC", "(", "1", ")", "\r">>>>

\* a name that is not listed has been selected
C28_WitnessIgnored ==
  /\ player.selected = "Tuner" /\ player.source = "HDMI 1"
  /\ player.state = "on" /\ cycle = "returned"
  /\ sent = << >>



\* ----- the config flow ------------------------------------------------------
COMPATIBLE_MODELS == SUPPORTED_MODELS

\* the exception classes that the except clauses of async_step_connection
\* tell apart, and SerialException, which only `except Exception` catches
FlowErrors ==
  {"ConnectionRefusedError", "TimeoutError", "PermissionError",
   "ConnectionError", "UnsupportedDeviceError", "SerialException"}

\* errors['base'] for the exception that left the try block: the first
\* except clause that matches
ErrorKey(e) ==
  CASE e = "ConnectionRefusedError" -> "connection_refused"
    [] e = "TimeoutError" -> "connection_timeout"
    [] e = "PermissionError" -> "permission_denied"
    [] e = "ConnectionError" -> "no_response"
    [] e = "UnsupportedDeviceError" -> "unsupported"
    [] OTHER -> "cannot_connect"

\* how the send of !PING? can end
PingEnds ==
  {RetNone, RetText(<<"!PONG">>), RetText(<<"!PING">>), RaiseTimeout,
   RaiseError}

\* AsyncDeviceControl.ping on the outcome o of _send_command
ping(o) ==
  IF o.kind \in {"TimeoutError", "Error"} THEN Raises(o.kind)
  ELSE Returns(o.kind = "text" /\ o.text = <<"!PONG">>)

SourceGroups == {"hdmi", "digital", "analog"}

StepAfterAny(rest, groups) ==
  IF "hdmi" \in rest THEN "sources_hdmi"
  ELSE IF "digital" \in rest THEN "sources_digital"
  ELSE IF "analog" \in rest THEN "sources_analog"
  ELSE "features"

\* the step that follows the source steps already passed: the first enabled
\* group among `rest`, in the order hdmi, digital, analog, else the features
StepAfter(rest, groups) ==
  IF "hdmi" \in rest \cap groups THEN "sources_hdmi"
  ELSE IF "digital" \in rest \cap groups THEN "sources_digital"
  ELSE IF "analog" \in rest \cap groups THEN "sources_analog"
  ELSE "features"

\* the flow is started: async_step_user() shows the form of the models
FlowStart ==
  /\ flow.step = "none"
  /\ flow' = [flow EXCEPT !.step = "user"]
  /\ UNCHANGED <<entryVars, sync, pair, home, protocolVars>>

\* async_step_user(user_input): the model is kept and the connection form is
\* shown, without errors
async_step_user(model_id) ==
  /\ flow.step = "user"
  /\ flow' = [flow EXCEPT !.step = "connection", !.model = model_id,
                          !.errors = "", !.shown = 1]
  /\ UNCHANGED <<entryVars, sync, pair, home, protocolVars>>

\* async_step_connection(user_input): `opens` tells whether the connection
\* is made and err what is raised when it is not, init how the init send
\* ends, o how the send of the ping ends, configured whether an entry with
\* this unique id exists (AbortFlow is raised inside the try block)
async_step_connection(opens, err, init, o, configured) ==
  /\ flow.step = "connection"
  /\ flow.shown < MaxForms
  /\ LET r == IF opens THEN async_get_mcintosh(flow.model, TRUE, init)
              ELSE Raises(err)
         p == ping(o)
         called == r.kind = "return"
         raised ==
           IF r.kind = "raise" THEN r.value
           ELSE IF r.value = "None" THEN "AttributeError"
           ELSE IF p.kind = "raise" THEN p.value
           ELSE IF ~p.value THEN "ConnectionError"
           ELSE IF configured THEN "AbortFlow"
           ELSE ""
         pinged ==
           IF ~called \/ r.value = "None" THEN ""
           ELSE IF p.kind = "raise" THEN "raise"
           ELSE IF p.value THEN "True" ELSE "False"
     IN flow' =
          IF raised = ""
          THEN [flow EXCEPT !.step = "zones", !.errors = "", !.raised = "",
                            !.ping = pinged]
          ELSE [flow EXCEPT !.errors = ErrorKey(raised), !.raised = raised,
                            !.ping = pinged, !.shown = @ + 1]
  /\ UNCHANGED <<entryVars, sync, pair, home, protocolVars>>

\* async_step_zones(user_input)
async_step_zones ==
  /\ flow.step = "zones"
  /\ flow' = [flow EXCEPT !.step = "source_groups"]
  /\ UNCHANGED <<entryVars, sync, pair, home, protocolVars>>

\* async_step_source_groups(user_input)
async_step_source_groups(groups) ==
  /\ flow.step = "source_groups"
  /\ flow' = [flow EXCEPT !.groups = groups,
                          !.step = StepAfter(SourceGroups, groups)]
  /\ UNCHANGED <<entryVars, sync, pair, home, protocolVars>>

\* async_step_sources_hdmi(user_input)
async_step_sources_hdmi ==
  /\ flow.step = "sources_hdmi"
  /\ flow' = [flow EXCEPT !.step = StepAfter({"digital", "analog"},
                                             flow.groups)]
  /\ UNCHANGED <<entryVars, sync, pair, home, protocolVars>>

\* async_step_sources_digital(user_input)
async_step_sources_digital ==
  /\ flow.step = "sources_digital"
  /\ flow' = [flow EXCEPT !.step = StepAfter({"analog"}, flow.groups)]
  /\ UNCHANGED <<entryVars, sync, pair, home, protocolVars>>

\* async_step_sources_analog(user_input)
async_step_sources_analog ==
  /\ flow.step = "sources_analog"
  /\ flow' = [flow EXCEPT !.step = "features"]
  /\ UNCHANGED <<entryVars, sync, pair, home, protocolVars>>

\* async_step_features(user_input), which ends with _create_entry
async_step_features ==
  /\ flow.step = "features"
  /\ flow' = [flow EXCEPT !.step = "done", !.created = TRUE]
  /\ UNCHANGED <<entryVars, sync, pair, home, protocolVars>>

NextFlow ==
  \/ FlowStart
  \/ \E model_id \in COMPATIBLE_MODELS : async_step_user(model_id)
  \/ \E opens \in BOOLEAN, err \in FlowErrors, init \in InitEnds,
        o \in PingEnds, configured \in BOOLEAN :
       async_step_connection(opens, err, init, o, configured)
  \/ async_step_zones
  \/ \E groups \in SUBSET SourceGroups : async_step_source_groups(groups)
  \/ async_step_sources_hdmi
  \/ async_step_sources_digital
  \/ async_step_sources_analog
  \/ async_step_features

FlowSpec == InitOpen /\ [][NextFlow]_vars

\* C29: when the connection attempt raises ConnectionError, or the device
\* does not answer the ping, no entry is created and the connection form is
\* shown again with the error cannot_connect.
C29_CannotConnect ==
  [][/\ flow.step = "connection" /\ flow'.shown > flow.shown
     /\ \/ flow'.raised = "ConnectionError" /\ flow'.ping = ""
        \/ flow'.ping = "False"
     => /\ flow'.step = "connection" /\ ~flow'.created
        /\ flow'.errors = "cannot_connect"]_vars

\* the form is shown again after a ping without answer, with another error
C29_NoResponse ==
  /\ flow.step = "connection" /\ flow.ping = "False"
  /\ flow.errors = "no_response" /\ ~flow.created



\* ----- the synchronous client ----------------------------------------------
\* commands of the control classes; the constructor sends connection_init
SyncCommands == {"!PING?", "!POWER?"}

\* bytes the port may deliver
SyncBytes == {EOL, Tag(1), NonAscii}

\* bytes(result).decode('ascii').strip(), or the error of decode
Decoded(result) ==
  IF \E i \in 1 .. Len(result) : result[i] >= 128 THEN "UnicodeDecodeError"
  ELSE IF Strip(result, {EOL, 32}) = << >> THEN "empty" ELSE "text"

\* _send_command up to the first read: under the lock the buffers are
\* cleared and the request is written and flushed; nothing waits for the
\* write before
SyncSend(command) ==
  /\ sync.phase = "idle"
  /\ sync.calls < NumSyncCalls
  /\ (sync.calls = 0) = (command = "!VERB(2)")
  /\ sync' = [sync EXCEPT
                !.phase = "reading", !.calls = @ + 1, !.result = << >>,
                !.out = "", !.quiet = 0, !.sinceWrite = 0,
                !.wire = Append(@, [command |-> command,
                                    gap |-> sync.sinceWrite])]
  /\ UNCHANGED <<entryVars, flow, pair, home, protocolVars>>

\* self._port.read(1) gives a byte: the loop ends with the terminator
SyncRead(c) ==
  /\ sync.phase = "reading"
  /\ Len(sync.result) < MaxData
  /\ LET result == Append(sync.result, c)
     IN sync' = IF c = EOL
                THEN [sync EXCEPT !.phase = "idle", !.result = result,
                                  !.out = Decoded(result), !.quiet = 0]
                ELSE [sync EXCEPT !.result = result, !.quiet = 0]
  /\ UNCHANGED <<entryVars, flow, pair, home, protocolVars>>

\* self._port.read(1) gives nothing within the timeout of the port
SyncTimeout ==
  /\ sync.phase = "reading"
  /\ sync.quiet = Timeout
  /\ sync' = [sync EXCEPT !.phase = "idle",
                          !.out = "SerialTimeoutException", !.quiet = 0]
  /\ UNCHANGED <<entryVars, flow, pair, home, protocolVars>>

\* time passes, for the caller between two commands or inside read(1)
SyncTick ==
  /\ IF sync.phase = "reading" THEN sync.quiet < Timeout
     ELSE sync.sinceWrite < MinTime
  /\ sync' = [sync EXCEPT
                !.sinceWrite = Min(@ + 1, MinTime),
                !.quiet = IF sync.phase = "reading" THEN @ + 1 ELSE @]
  /\ UNCHANGED <<entryVars, flow, pair, home, protocolVars>>

NextSync ==
  \/ \E command \in SyncCommands \cup {"!VERB(2)"} : SyncSend(command)
  \/ \E c \in SyncBytes : SyncRead(c)
  \/ SyncTimeout
  \/ SyncTick

SyncSpec == InitOpen /\ [][NextSync]_vars

\* C30: two consecutive writes of the synchronous client are at least the
\* minimum time between commands apart.
C30_SyncWritesSpaced ==
  \A i \in 2 .. Len(sync.wire) : sync.wire[i].gap >= MinTime

\* a command was written right after the reply to the one before
C30_BackToBack ==
  /\ Len(sync.wire) = 2 /\ sync.wire[2].gap = 0
  /\ sync.wire[1].command = "!VERB(2)" /\ sync.phase = "reading"


Terminated(d) ==
  LET segs == Split(d, EOL)
  IN \E i \in 1 .. Len(segs) - 1 :
       segs[i] # << >> /\ \A j \in 1 .. i - 1 : segs[j] = << >>

\* C33: a non-empty text returned by send is a complete line: in the bytes
\* received, it was followed by the terminator.
C33_ReturnsCompleteLine ==
  [][\A c \in Tasks :
       /\ pc[c] = "reading" /\ exit'[c] = "response"
       /\ ret'[c].text # << >>
       => Terminated(data')]_vars


\* C34: a send that ends not connected has not written, has not stamped the
\* time of the last send and has taken no chunk from the queue: neither the
\* step that starts the wait for the connection nor the step that gives up
\* touches them, and no write on the wire is of such a send.
C34_NotConnectedLeavesState ==
  [][\A c \in Tasks :
       /\ (pc[c] # "connwait" /\ pc'[c] = "connwait")
            \/ (exit[c] # "not_connected" /\ exit'[c] = "not_connected")
          => UNCHANGED <<q, wire, sinceLast, sinceWrite, inbuf, data>>
       /\ exit'[c] = "not_connected"
          => /\ ret'[c] = RetNone
             /\ \A i \in 1 .. Len(wire') : wire'[i].task # c]_vars

\* a send gave up waiting for the connection while the queue held a chunk
\* and an earlier send had written
C34_Witness ==
  \E c \in Tasks :
    /\ exit[c] = "not_connected" /\ pc[c] = "done"
    /\ q # << >> /\ wire # << >> /\ ~connected


\* C35: once the range of lipsync has been fetched, the data of every later
\* poll that returns with the power on carries the range.
C35_RangeKept ==
  [][/\ cycle = "running" /\ cycle' = "returned"
     /\ Len(sent') > 1 /\ range_fetched'
     => "lipsync_range" \in mcdata']_vars

\* a poll after the one that fetched the range returned the other fields
\* without the range
C35_RangeDefaulted ==
  /\ cycle = "returned" /\ range_fetched
  /\ "lipsync" \in mcdata /\ "height" \in mcdata
  /\ "lipsync_range" \notin mcdata /\ ~RangeAsked(sent)


\* place of a step in the order source_groups, HDMI, digital, analog,
\* features
StepRank(st) ==
  CASE st = "source_groups" -> 0
    [] st = "sources_hdmi" -> 1
    [] st = "sources_digital" -> 2
    [] st = "sources_analog" -> 3
    [] st = "features" -> 4
    [] st = "done" -> 5
    [] OTHER -> 0 - 1

GroupOfRank(k) ==
  CASE k = 1 -> "hdmi" [] k = 2 -> "digital" [] k = 3 -> "analog"
    [] OTHER -> ""

\* C36: after the source_groups step the flow shows the naming steps of
\* exactly the selected groups, each at most once and in the order HDMI,
\* digital, analog, then the features step, and then creates one entry.
C36_SourceStepsInOrder ==
  [][/\ StepRank(flow.step) \in 0 .. 3 /\ flow.step # flow'.step
        => LET a == StepRank(flow.step)
               b == StepRank(flow'.step)
           IN /\ a < b /\ b <= 4
              /\ flow.step # "source_groups" => flow'.groups = flow.groups
              /\ b \in 1 .. 3 => GroupOfRank(b) \in flow'.groups
              /\ \A k \in a + 1 .. b - 1 :
                   GroupOfRank(k) \notin flow'.groups
     /\ flow.step = "features" /\ flow.step # flow'.step
        => flow'.step = "done"
     /\ flow'.created # flow.created
        => flow.step = "features" /\ flow'.step = "done" /\ flow'.created
     /\ flow.step # "done" => ~flow.created]_vars

\* the entry was created after only HDMI and analog had been selected
C36_Witness ==
  /\ flow.step = "done" /\ flow.created
  /\ flow.groups = {"hdmi", "analog"}

\* with no group selected the flow is at the features step
C36_WitnessNone ==
  flow.step = "features" /\ flow.groups = {} /\ ~flow.created



\* ----- config entries and their entities ------------------------------------
Urls == {"socket://a:84", "socket://b:84"}

\* the sets of source ids that a user names in the source steps
NamedSets == {{}, {0}}

\* the keys of entry.data, as _create_entry combines them: the model, the
\* connection form, the zone names and the features
DataKeys == {"model", "url", "zones", "features"}

\* the entities of one config entry
Kinds ==
  {"media_player", "loudness", "bass", "treble", "lipsync", "center_trim",
   "lfe_trim", "surrounds_trim", "height_trim"}

\* _attr_unique_id of an entity: f'{DOMAIN}_{model_id}' for the media
\* player, f'{DOMAIN}_{model_id}_{key}' for the others; lower() and
\* replace(' ', '_') leave the model ids of the flow as they are
UniqueId(model_id, kind) ==
  IF kind = "media_player" THEN <<"mcintosh", model_id>>
  ELSE <<"mcintosh", model_id, kind>>

\* `if CONF_SOURCES in config_entry.data` of McIntoshMediaPlayer.__init__
HasSources(keys) == "sources" \in keys

\* the source table of the media player: the configured names, read by
\* _get_sources from the options when they have them, or the default SOURCES
PlayerSources(named) ==
  IF HasSources(DataKeys) THEN named ELSE SourceIds

\* _create_entry: the entry gets its data and its options; the flow has
\* aborted before if an entry with this unique id (model and URL) exists
CreateEntry(e, model_id, url, named) ==
  /\ home[e].state = "none"
  /\ \A d \in 1 .. e - 1 : home[d].state # "none"
  /\ \A d \in Entries : ~(home[d].model = model_id /\ home[d].url = url)
  /\ home' = [home EXCEPT ![e] =
                [NoEntry EXCEPT !.state = "created", !.model = model_id,
                                !.url = url, !.opt_sources = named]]
  /\ UNCHANGED <<entryVars, flow, sync, pair, protocolVars>>

\* async_setup_entry: connect_to_device, then the platforms create the
\* entities, each keeping details.client
async_setup_entry(e, opens, init) ==
  /\ home[e].state = "created"
  /\ Connecting(e, home[e].model, opens, init)
  /\ home' = IF setup'.result = "registered"
             THEN [home EXCEPT ![e] =
                     [@ EXCEPT !.state = "loaded", !.opened = 1,
                               !.latest_url = home[e].url, !.held = 1,
                               !.player_sources =
                                  PlayerSources(home[e].opt_sources),
                               !.uids = {[kind |-> k,
                                          uid |-> UniqueId(home[e].model, k)]
                                         : k \in Kinds}]]
             ELSE home
  /\ UNCHANGED <<cycle, fetching, mcdata, range_fetched, reply, got, sent,
                 arg, player, flow, sync, pair, protocolVars>>

\* config_update_listener, after the options flow has stored new options:
\* connect_to_device again, with entry.data
Reconnected(e, opens, init) ==
  /\ Connecting(e, home[e].model, opens, init)
  /\ UNCHANGED <<cycle, fetching, mcdata, range_fetched, reply, got, sent,
                 arg, player, flow, sync, pair, protocolVars>>

\* McIntoshOptionsFlow.async_step_connection: the URL goes to the options
options_connection(e, url, opens, init) ==
  /\ home[e].state = "loaded"
  /\ home[e].opened < MaxClients
  /\ url # home[e].opt_url
  /\ Reconnected(e, opens, init)
  /\ home' = [home EXCEPT ![e] =
                IF setup'.result = "registered"
                THEN [@ EXCEPT !.opt_url = url, !.opened = @ + 1,
                               !.latest_url = home[e].url, !.used = 0]
                ELSE [@ EXCEPT !.opt_url = url]]

\* McIntoshOptionsFlow.async_step_sources: the names go to the options
options_sources(e, named, opens, init) ==
  /\ home[e].state = "loaded"
  /\ home[e].opened < MaxClients
  /\ named # home[e].opt_sources
  /\ Reconnected(e, opens, init)
  /\ home' = [home EXCEPT ![e] =
                IF setup'.result = "registered"
                THEN [@ EXCEPT !.opt_sources = named, !.opened = @ + 1,
                               !.latest_url = home[e].url, !.used = 0]
                ELSE [@ EXCEPT !.opt_sources = named]]

\* an entity of the entry sends a command: through self._client
entity_command(e) ==
  /\ home[e].state = "loaded"
  /\ home' = [home EXCEPT ![e].used = home[e].held]
  /\ UNCHANGED <<entryVars, flow, sync, pair, protocolVars>>

NextHome ==
  \/ \E e \in Entries, model_id \in COMPATIBLE_MODELS, url \in Urls,
        named \in NamedSets : CreateEntry(e, model_id, url, named)
  \/ \E e \in Entries, opens \in BOOLEAN, init \in InitEnds :
       async_setup_entry(e, opens, init)
  \/ \E e \in Entries, url \in Urls, opens \in BOOLEAN, init \in InitEnds :
       options_connection(e, url, opens, init)
  \/ \E e \in Entries, named \in NamedSets, opens \in BOOLEAN,
        init \in InitEnds : options_sources(e, named, opens, init)
  \/ \E e \in Entries : entity_command(e)

HomeSpec == InitOpen /\ [][NextHome]_vars


\* C37: the sources that the user has named are the ones the media player
\* uses: once the entry is loaded with at least one named source, the source
\* table of the player is exactly the configured one.
C37_ConfiguredSourcesUsed ==
  \A e \in Entries :
    home[e].state = "loaded" /\ home[e].opt_sources # {}
    => home[e].player_sources = home[e].opt_sources

\* an entry set up with one named source, whose player has the 26 defaults
C37_DefaultTable ==
  \E e \in Entries :
    /\ home[e].state = "loaded" /\ home[e].opt_sources = {0}
    /\ home[e].opened = 1 /\ home[e].player_sources = 0 .. 25

\* C38: after an options update has made config_update_listener reconnect,
\* the commands of the entities go through the client of that reconnect,
\* which was opened with the updated URL.
C38_CommandsUseNewClient ==
  \A e \in Entries :
    home[e].used # 0
    => /\ home[e].used = home[e].opened
       /\ home[e].opt_url # "" => home[e].latest_url = home[e].opt_url

\* after a reconnect an entity has sent a command through the client of the
\* setup, while the entry holds a second client opened with the old URL
C38_OldClientUsed ==
  \E e \in Entries :
    /\ home[e].opened = 2 /\ home[e].used = 1
    /\ home[e].opt_url # "" /\ home[e].opt_url # home[e].url
    /\ home[e].latest_url = home[e].url

\* C39: the unique ids of the entities are pairwise distinct, within one
\* config entry and over all config entries.
C39_UniqueIdsDistinct ==
  \A d, e \in Entries :
    \A x \in home[d].uids, y \in home[e].uids :
      x.uid = y.uid => d = e /\ x.kind = y.kind

\* two devices of the same model at different URLs are set up
C39_SameModelTwice ==
  /\ home[1].state = "loaded" /\ home[2].state = "loaded"
  /\ home[1].model = home[2].model /\ home[1].url # home[2].url
  /\ \E x \in home[1].uids : x \in home[2].uids

\* within one entry the nine unique ids differ
C39_DistinctWithinEntry ==
  \A e \in Entries :
    \A x, y \in home[e].uids : x.uid = y.uid => x.kind = y.kind



\* ----- one byte stream, read by both clients ------------------------------
\* bytes of the stream: the terminator, a letter, a space, a byte >= 0x80
StreamBytes == SyncBytes \cup {32}

Streams == UNION {[1 .. n -> StreamBytes] : n \in 0 .. MaxStream}

RECURSIVE Chunks(_, _, _)
\* the chunks in which the stream reaches data_received: cuts holds the
\* positions after which a chunk ends
Chunks(stream, cuts, from) ==
  IF from > Len(stream) THEN << >>
  ELSE LET ends == {k \in cuts : k >= from} \cup {Len(stream)}
           to == CHOOSE k \in ends : \A j \in ends : k <= j
       IN <<SubSeq(stream, from, to)>> \o Chunks(stream, cuts, to + 1)

RECURSIVE AsyncRead(_, _)
\* the read loop of McIntoshProtocol.send on the chunks of the queue: after
\* every chunk it looks for the terminator in data; without any it times out
AsyncRead(d, chunks) ==
  IF chunks = << >> THEN RaiseTimeout
  ELSE LET more == d \o Head(chunks)
       IN IF Contains(more, EOL) THEN RetText(FirstLine(more))
          ELSE AsyncRead(more, Tail(chunks))

\* the read loop of McIntoshSync._send_command on the same bytes: one byte
\* at a time up to the first terminator, then decode and strip
SyncReadAll(stream) ==
  IF ~Contains(stream, EOL)
  THEN [kind |-> "SerialTimeoutException", text |-> << >>]
  ELSE LET result == Split(stream, EOL)[1] \o <<EOL>>
       IN IF Decoded(result) = "UnicodeDecodeError"
          THEN [kind |-> "UnicodeDecodeError", text |-> << >>]
          ELSE RetText(Strip(result, {EOL, 32}))

\* the device has sent a stream in some chunks, after the write of a command
AdapterInit ==
  /\ Connected
  /\ FrontIdle
  /\ hass_data = [e \in Entries |-> "absent"]
  /\ setup = NoSetup
  /\ cycle = "idle"
  /\ fetching = 0
  /\ mcdata = {}
  /\ range_fetched = FALSE
  /\ reply = Pending
  /\ got = NoGet
  /\ sent = << >>
  /\ arg = 0
  /\ player = NoPlayer
  /\ \E stream \in Streams : \E cuts \in SUBSET (1 .. Len(stream) - 1) :
       pair = [NoPair EXCEPT !.stream = stream, !.cuts = cuts]

\* both clients read the stream
ReadBoth ==
  /\ pair.sync = ""
  /\ LET s == SyncReadAll(pair.stream)
         a == AsyncRead(<< >>, Chunks(pair.stream, pair.cuts, 1))
     IN pair' = [pair EXCEPT !.sync = s.kind, !.syncText = s.text,
                             !.async = a.kind, !.asyncText = a.text]
  /\ UNCHANGED <<entryVars, flow, sync, home, protocolVars>>

NextAdapter == ReadBoth

AdapterSpec == AdapterInit /\ [][NextAdapter]_vars

\* C31: on the same bytes of the device, in any chunks,
\* McIntoshSync._send_command and McIntoshProtocol.send give the same
\* outcome: the same text, or a timeout both.
C31_SameOutcome ==
  pair.sync # ""
  => \/ /\ pair.sync = "text" /\ pair.async = "text"
        /\ pair.syncText = pair.asyncText
     \/ pair.sync = "SerialTimeoutException" /\ pair.async = "TimeoutError"

\* a terminator, then a line, in one chunk: the synchronous client returns
\* the empty text and the protocol the line
C31_LeadingTerminator ==
  /\ pair.stream = <<EOL, Tag(1), EOL>> /\ pair.cuts = {}
  /\ pair.sync = "text" /\ pair.syncText = << >>
  /\ pair.async = "text" /\ pair.asyncText = <<Tag(1)>>

\* a byte that is not ASCII: the synchronous client raises on decode, the
\* protocol drops the byte
C31_DecodeError ==
  /\ pair.stream = <<NonAscii, Tag(1), EOL>>
  /\ pair.sync = "UnicodeDecodeError"
  /\ pair.async = "text" /\ pair.asyncText = <<Tag(1)>>

\* the streams on which the two agree include one line in two chunks
C31_Agree ==
  /\ pair.stream = <<Tag(1), Tag(1), EOL>> /\ pair.cuts = {1}
  /\ pair.sync = "text" /\ pair.async = "text"
  /\ pair.syncText = <<Tag(1), Tag(1)>> /\ pair.asyncText = pair.syncText

=============================================================================
